---- MODULE Spec2Model ----
(***************************************************************************)
(* Anti-Paste Guard: the tamper-evident segment store (SegmentStore,       *)
(* SegmentWriter), its independent verifier (verify_db) and the bounded    *)
(* event channel (safe_put).                                               *)
(*                                                                         *)
(* Byte strings are symbolic terms: a tuple whose first element names the  *)
(* primitive that produced it.  Two terms are equal exactly when they were *)
(* built from equal inputs, i.e. HKDF, HMAC, AEAD and Ed25519 are taken to *)
(* be collision free and unforgeable, and os.urandom never repeats a salt. *)
(* An HMAC tag is the index of its (key, data) query in hmac_oracle, the   *)
(* list of the queries the writer has made: equal queries give equal tags, *)
(* different queries different tags, and terms stay small.                 *)
(***************************************************************************)
EXTENDS Integers, Sequences, FiniteSets, TLC

\* ------------------------------------------------------------------ bounds
MaxWork == 4
MaxThreadWork == 3
MaxPut == 8
MaxCalls == 5
MaxT == 2
MaxLen == 3
MaxEvents == 3
MaxEngEvents == 4
MaxDispatch == 2
MaxTicks == 5
MaxKeyT == 4
MaxRaw == 2

\* PasteClassifierConfig(context_window_sec, context_cooldown_sec): the
\* constructor's parameters, in the time unit of MaxT
context_window_sec == 1
context_cooldown_sec == 1

\* AnomalyConfig(...): the constructor's parameters, times in the unit of MaxT
\* and lengths in the unit of MaxLen
keys_window_s == 1
idle_threshold_s == 2
burst_min_len == 2
text_insertion_min == 1
keys_small_max == 1
paste_window_s == 1
paste_streak_n == 2
wpm_window_s == 1
cpm_window_s == 2
entropy_window_s == 2
min_interkey_samples == 3
\* uniform_cv_threshold = 0.12, in hundredths
uniform_cv_threshold == 12

\* Queue(maxsize=...): event_bus.py sets 5000; small here so that the queue fills
maxsize == 3
RecBytes == 100

\* SegmentWriter(store, flush_sec, max_events): the constructor's parameters,
\* small here so that both flush triggers happen.
flush_sec == 2
max_events == 2

VARIABLES
    segments,          \* the rows of table "segments", ascending seq
    sqlite_sequence,   \* AUTOINCREMENT's counter for table "segments"
    sess,              \* SegmentWriter.sess: the SessionKeys of this process
    _current_key,      \* ratchet state
    _prev_tag,
    _last_chain_tag,
    _buf,              \* buffered records
    _next_flush,
    flush_boundary,    \* .flushed: when the writer was constructed or last made a check
                       \* that was forced or due (a batch swapped out, or none to swap);
                       \* .empty: when a check last found the buffer empty
    _stop,             \* threading.Event
    _thr,              \* the poller thread is alive
    now,               \* time.time(), in whole time units
    urandom,           \* number of os.urandom draws that produced a salt or nonce
    nrec,              \* records handed to add_event so far
    nfail,             \* appends that raised so far
    nsess,             \* processes started so far
    HAVE_PYCRYPTO,     \* aead.py: pycryptodome could be imported
    hmac_oracle,       \* the (key, data) pairs the writer has taken an HMAC of
    report,            \* what verify_db returned, once it has been run
    _stop_evt,         \* HookRuntime._stop_evt
    pc,                \* where each thread is
    loc,               \* each thread's local variables inside _flush_if_needed
    event_queue,       \* event_bus.event_queue: the items queued, oldest first
    q_nput,            \* safe_put calls so far; the n-th call puts item n
    q_got,             \* the items the consumer has dequeued, in order
    sp_pc,             \* where each producer thread is inside safe_put
    sp_item,           \* the item each producer is putting
    sp_ncall,          \* calls of safe_put the producer threads have made
    primary_hint,      \* PasteClassifier.cfg.primary_hint
    _last_right_click_mono,    \* <<>> is None, <<t>> is the float t
    _last_clip_change_mono,
    _last_context_emit_mono,
    clock,             \* the last reading of PasteClassifier.clock
    cls_out,           \* the commands the last call of process emitted, in order
    ctx_emits,         \* the clock readings at which paste_context was emitted
    cls_n,             \* events the classifier has processed
    _recent_keys,      \* AnomalyEngine: deque of key-down times, head first
    _paste_times,      \* AnomalyEngine: deque of paste times, head first
    _last_non_idle_t,
    eng_out,           \* the anomalies the last call of process emitted, in order
    eng_t0,            \* the clock reading when the engine was constructed
    key_log,           \* t_mono of every key-down the engine has processed
    paste_log,         \* t_mono of every paste or paste_context it has processed
    cmd_clock,         \* t_mono of the last command event the dispatcher created
    key_clock,         \* t_mono of the last key event the keyboard listener created
    eng_n,             \* events the engine has processed
    _keys_window,      \* MetricsTracker: deque of (t_mono, key) of key-downs
    _intervals,        \* MetricsTracker: deque of (end_time, dt)
    _last_key_down_t,  \* MetricsTracker: <<>> is None, <<t>> is the float t
    _last_event_t,     \* MetricsTracker
    crypto_failed,     \* the process in which a flush last raised while encrypting,
                       \* chaining or signing; 0 when none did
    d_pc,              \* where the dispatcher thread is inside _consume_loop
    d_ev,              \* the event it is handling
    d_raw,             \* that event as it came off the queue
    d_n,               \* events it has dequeued so far
    ctx_app,           \* ContextState._current.app_name
    got,               \* per component, the events it was handed, in order
    raised,            \* the <<component, event number>> calls that raised
    enable_session_digest,  \* ClipboardWatcher.enable_session_digest
    _last_sig,         \* ClipboardWatcher._last_sig: <<>> is None
    _interval,         \* ClipboardWatcher._interval, in milliseconds
    _unchanged_ticks,  \* ClipboardWatcher._unchanged_ticks
    clk,               \* the time, which time.perf_counter and datetime.now read
    cur,               \* the event that was created last (.ev), with the clipboard
                       \* text (.txt) and watcher setting (.en) it was made from
    last_rec           \* the last event add_event serialised (.ev), its record
                       \* (.rec) and what the event was made from (.txt, .en)

storeVars == <<segments, sqlite_sequence>>
writerVars == <<sess, _current_key, _prev_tag, _last_chain_tag, _buf, _next_flush, flush_boundary,
               _stop, _thr>>
envVars == <<now, urandom, nrec, nfail, nsess, HAVE_PYCRYPTO, hmac_oracle>>
threadVars == <<_stop_evt, pc, loc>>
segVars == <<storeVars, writerVars, envVars, report, threadVars>>
queueVars == <<event_queue, q_nput, q_got>>
putVars == <<sp_pc, sp_item, sp_ncall>>
clsVars == <<primary_hint, _last_right_click_mono, _last_clip_change_mono,
             _last_context_emit_mono, clock, cls_out, ctx_emits, cls_n>>
engVars == <<_recent_keys, _paste_times, _last_non_idle_t, eng_out, eng_t0,
             key_log, paste_log, cmd_clock, key_clock, eng_n,
             _keys_window, _intervals, _last_key_down_t, _last_event_t>>
runVars == <<crypto_failed>>
dispVars == <<d_pc, d_ev, d_raw, d_n, ctx_app, got, raised>>
recVars == <<enable_session_digest, _last_sig, _interval, _unchanged_ticks, clk, cur, last_rec>>
\* what the segment store's steps leave alone, and what the channel's steps do
notSeg == <<queueVars, putVars, clsVars, engVars, runVars, dispVars, recVars>>
notQueue == <<segVars, putVars, clsVars, engVars, runVars, dispVars, recVars>>
vars == <<segVars, queueVars, putVars, clsVars, engVars, runVars, dispVars, recVars>>

\* ------------------------------------------------- library primitives
\* bytes.hex() and bytes.fromhex()
hex(b) == <<"hex", b>>
fromhex(h) == h[2]

\* b"\x00" * n
zero_bytes(n) == <<"zero", n>>

\* bytes[:n]
prefix_bytes(b, n) == <<"prefix", n, b>>

\* HKDF(SHA256, length, salt, info).derive(ikm)
HKDF(ikm, length, salt, info) == <<"hkdf", ikm, length, salt, info>>

\* hmac.HMAC(key, SHA256) fed the blocks of data in order, then finalize()
HMAC(key, data) ==
    IF \E i \in 1..Len(hmac_oracle) : hmac_oracle[i] = <<key, data>>
    THEN <<"hmac", CHOOSE i \in 1..Len(hmac_oracle) : hmac_oracle[i] = <<key, data>> >>
    ELSE <<"hmac", 0, key, data>>
\* the tag of a query the writer is making now, and the oracle after it
HMAC_new(key, data) ==
    IF \E i \in 1..Len(hmac_oracle) : hmac_oracle[i] = <<key, data>>
    THEN HMAC(key, data)
    ELSE <<"hmac", Len(hmac_oracle) + 1>>
oracle_after(key, data) ==
    IF \E i \in 1..Len(hmac_oracle) : hmac_oracle[i] = <<key, data>>
    THEN hmac_oracle
    ELSE Append(hmac_oracle, <<key, data>>)

\* Ed25519
ed25519_public(priv) == <<"ed25519_pub", priv>>
ed25519_sign(priv, msg) == <<"ed25519_sig", priv, msg>>
ed25519_verify(pub, sig, msg) ==
    /\ Len(sig) = 3
    /\ sig[1] = "ed25519_sig"
    /\ ed25519_public(sig[2]) = pub
    /\ sig[3] = msg

\* ---------------------------------------------------------------- JSON
\* A dict is the sequence of its <<key, value>> items in insertion order.
dict_get(d, k) == (CHOOSE i \in 1..Len(d) : d[i][1] = k)
dict_has(d, k) == \E i \in 1..Len(d) : d[i][1] = k
dict_val(d, k) == d[dict_get(d, k)][2]
dict_set(d, k, v) ==
    IF dict_has(d, k) THEN [d EXCEPT ![dict_get(d, k)] = <<k, v>>] ELSE Append(d, <<k, v>>)
dict_pop(d, k) == SelectSeq(d, LAMBDA p : p[1] # k)

\* The header's keys in sorted order (sort_keys=True).
KeyOrder ==
    <<"chain_tag", "hkdf_info", "nonce", "padded_len", "prev_tag",
      "session", "sig", "sign_pub", "suite", "ver">>

RECURSIVE sort_keys_from(_, _)
sort_keys_from(d, i) ==
    IF i > Len(KeyOrder) THEN <<>>
    ELSE SelectSeq(d, LAMBDA p : p[1] = KeyOrder[i]) \o sort_keys_from(d, i + 1)

\* json.dumps(d, separators=..., sort_keys=...).encode(): the text depends on
\* the separators and on the order in which the items are written.
json_dumps(d, separators, sort_keys) ==
    <<"json", separators, IF sort_keys THEN sort_keys_from(d, 1) ELSE d>>
json_loads(b) == b[3]
\* json.loads(b.decode("utf-8")) does not raise: b is the text of a document
json_parses(b) == b[1] = "json"

\* ------------------------------------------------------- core/crypto/aead.py
SUITE_CHACHA20P == "CHACHA20P"
SUITE_AES_SIV == "AES_SIV"

\* ChaCha20Poly1305(key).encrypt(nonce, plaintext, aad): one block, the tag inside it
chacha_encrypt(key, nonce, plaintext, aad) ==
    << <<"chacha20poly1305", key, nonce, plaintext, aad>> >>
\* ChaCha20Poly1305(key).decrypt(nonce, ciphertext, aad) does not raise InvalidTag
chacha_decrypt_ok(key, nonce, ciphertext, aad) ==
    /\ Len(ciphertext) = 1
    /\ Len(ciphertext[1]) = 5
    /\ ciphertext[1][1] = "chacha20poly1305"
    /\ ciphertext[1][2] = key
    /\ ciphertext[1][3] = nonce
    /\ ciphertext[1][5] = aad

\* AES.new(key, MODE_SIV); update(aad); encrypt_and_digest(plaintext) -> (ct, tag)
siv_tag(key, plaintext, aad) == <<"siv_tag", key, aad, plaintext>>
siv_ct(key, plaintext, aad) == <<"siv_ct", key, siv_tag(key, plaintext, aad), plaintext>>
\* AESSIVSuite.encrypt returns ct + tag
siv_encrypt(key, plaintext, aad) ==
    <<siv_ct(key, plaintext, aad)>> \o <<siv_tag(key, plaintext, aad)>>
\* decrypt_and_verify(ct, tag) after update(aad) does not raise
siv_decrypt_ok(key, ct, tag, aad) ==
    /\ Len(ct) = 1
    /\ Len(tag) = 1
    /\ Len(ct[1]) = 4
    /\ ct[1][1] = "siv_ct"
    /\ ct[1][2] = key
    /\ ct[1][3] = tag[1]
    /\ tag[1] = siv_tag(key, ct[1][4], aad)

\* suite.encrypt(key, plaintext, aad) -> (ct, params); nonce is the os.urandom(12) drawn
suite_encrypt(suite, key, plaintext, aad, nonce) ==
    IF suite = SUITE_AES_SIV
    THEN [ct |-> siv_encrypt(key, plaintext, aad), params |-> <<>>]
    ELSE [ct |-> chacha_encrypt(key, nonce, plaintext, aad),
          params |-> << <<"nonce", hex(nonce)>> >>]

\* pick_suite() as it would be without the test of HAVE_PYCRYPTO
pick_suite_either(have_pycrypto) == {SUITE_AES_SIV, SUITE_CHACHA20P}
\* pick_suite(): the suites the one-bit draw can return
pick_suite(have_pycrypto) ==
    IF have_pycrypto THEN {SUITE_AES_SIV, SUITE_CHACHA20P} ELSE {SUITE_CHACHA20P}

\* ------------------------------------------------ core/crypto/key_manager.py
master_key == <<"master.key">>
signing_key == <<"signing.key">>
no_key == <<"none">>
\* secrets_dir is given and holds no master.key
no_file == <<"missing">>

\* MasterKeyManager.start_session() with session_salt the os.urandom(16) drawn
start_session(session_salt) ==
    [session_id |-> hex(session_salt),
     session_key |-> HKDF(master_key, 32, session_salt, "session-key"),
     chain_hmac_key |-> HKDF(master_key, 32, session_salt, "hmac-chain"),
     sign_private |-> signing_key,
     sign_public_bytes |-> ed25519_public(signing_key)]

derive_segment_key(prev_key, prev_tag, length, info) ==
    HKDF(prev_key, length, IF prev_tag = <<>> THEN zero_bytes(16) ELSE prev_tag, info)

\* ---------------------------------------------- core/crypto/segment_store.py
BLOCK == 256

\* pad_to_block(data, block) -> (padded, padded_len); data_len is len(data)
pad_to_block(data, data_len, block) ==
    LET rem == (-data_len) % block IN
    IF rem = 0 THEN [padded |-> <<"data", data, 0>>, padded_len |-> data_len]
    ELSE [padded |-> <<"data", data, rem>>, padded_len |-> data_len + rem]

\* len("\n".join(json.dumps(obj) for obj in batch)): RecBytes bytes a record
raw_len(batch) == Len(batch) * RecBytes + (Len(batch) - 1)

key_len_of(suite) == IF suite = SUITE_AES_SIV THEN 64 ELSE 32
hkdf_info_of(suite) == <<"segment-key:", suite>>

\* lines 139-142: suite, info and the per-segment key from the ratchet
ws_seg_key(current_key, prev_tag, suite) ==
    derive_segment_key(current_key, prev_tag, key_len_of(suite), hkdf_info_of(suite))

\* lines 149-157: the header before signing
ws_header_stem(s, suite, padded_len, prev_tag) ==
    << <<"ver", 1>>,
       <<"suite", suite>>,
       <<"session", s.session_id>>,
       <<"padded_len", padded_len>>,
       <<"hkdf_info", hkdf_info_of(suite)>>,
       <<"prev_tag", hex(prev_tag)>>,
       <<"sign_pub", hex(s.sign_public_bytes)>> >>

\* line 158 as it would be with sort_keys=True
ws_aad_sorted(header) == json_dumps(header, "compact", TRUE)
\* line 158
ws_aad(header) == json_dumps(header, "compact", FALSE)

\* lines 165-169
ws_chain_data(aad, ct, last_chain_tag) == <<aad>> \o ct \o <<last_chain_tag>>
ws_chain_tag(hmac_key, aad, ct, last_chain_tag) ==
    HMAC_new(hmac_key, ws_chain_data(aad, ct, last_chain_tag))

\* lines 173-176
ws_signature(s, header) ==
    ed25519_sign(s.sign_private, json_dumps(header, "compact", TRUE))

RECURSIVE dict_update(_, _)
dict_update(d, params) ==
    IF params = <<>> THEN d
    ELSE dict_update(dict_set(d, params[1][1], params[1][2]), Tail(params))

\* _write_segment up to the insert: what it computes from the values it read
\* (key and tag1 at line 142, tag2 at line 155, chain at line 168)
ws_build(s, batch, suite, nonce, ts, key, tag1, tag2, chain) ==
    LET seg_key == ws_seg_key(key, tag1, suite)
        p == pad_to_block(batch, raw_len(batch), BLOCK)
        stem == ws_header_stem(s, suite, p.padded_len, tag2)
        aad == ws_aad(stem)
        enc == suite_encrypt(suite, seg_key, p.padded, aad, nonce)
        h1 == dict_update(stem, enc.params)
        chain_tag == ws_chain_tag(s.chain_hmac_key, aad, enc.ct, chain)
        h2 == dict_set(h1, "chain_tag", hex(chain_tag))
        h3 == dict_set(h2, "sig", hex(ws_signature(s, h2)))
    IN [seg_key |-> seg_key,
        chain_tag |-> chain_tag,
        oracle |-> oracle_after(s.chain_hmac_key, ws_chain_data(aad, enc.ct, chain)),
        ts_utc |-> ts,
        header |-> json_dumps(h3, "default", FALSE),
        body |-> enc.ct,
        meta |-> [count |-> Len(batch)]]

\* ----------------------------------------------------------------- threads
\* disp: HookRuntime._consume_loop, the only caller of add_event
\* poll: SegmentWriter._loop
\* main: the thread that calls HookRuntime.start() and HookRuntime.stop()
Threads == {"disp", "poll", "main"}
no_locals == [force |-> FALSE, batch |-> <<>>, suite |-> "", key |-> <<>>,
              tag1 |-> <<>>, tag2 |-> <<>>, nonce |-> <<>>, ts |-> 0, built |-> <<>>]

\* the capture threads that put into event_queue: KeyboardHook and MouseHook
Producers == {"kbd", "mouse"}

\* ------------------------------------------------------------ SegmentStore
\* insert_segment as it would be if a failed INSERT kept its sequence number
insert_segment_leaky(ok, ts_utc, header, body, meta) ==
    /\ sqlite_sequence' = sqlite_sequence + 1
    /\ IF ok
       THEN /\ segments' = Append(segments,
                   [seq |-> sqlite_sequence + 1, ts_utc |-> ts_utc,
                    header |-> header, body |-> body, meta |-> meta])
            /\ UNCHANGED nfail
       ELSE /\ UNCHANGED segments
            /\ nfail' = nfail + 1

\* insert_segment: INSERT and commit. ok = FALSE is sqlite3 raising before the
\* commit took effect: the connection is closed without a commit, which rolls
\* the row and sqlite_sequence back.
insert_segment(ok, ts_utc, header, body, meta) ==
    IF ok
    THEN /\ segments' = Append(segments,
                [seq |-> sqlite_sequence + 1, ts_utc |-> ts_utc,
                 header |-> header, body |-> body, meta |-> meta])
         /\ sqlite_sequence' = sqlite_sequence + 1
         /\ UNCHANGED nfail
    ELSE /\ UNCHANGED <<segments, sqlite_sequence>>
         /\ nfail' = nfail + 1

\* ------------------------------------------------------------ SegmentWriter
fresh(n) == <<"urandom", n, urandom + 1>>

\* lines 178-181
ratchet_forward(seg_key, chain_tag) ==
    /\ _current_key' = seg_key
    /\ _prev_tag' = prefix_bytes(chain_tag, 16)
    /\ _last_chain_tag' = chain_tag

\* _write_segment(batch), run without interruption
_write_segment(batch, suite, ok) ==
    LET b == ws_build(sess, batch, suite, fresh(12), now * 1000,
                      _current_key, _prev_tag, _prev_tag, _last_chain_tag)
    IN /\ urandom' = IF suite = SUITE_CHACHA20P THEN urandom + 1 ELSE urandom
       /\ hmac_oracle' = b.oracle
       /\ ratchet_forward(b.seg_key, b.chain_tag)
       /\ insert_segment(ok, b.ts_utc, b.header, b.body, b.meta)

\* flush_not_needed as it would be if the timer test were now <= _next_flush
flush_not_needed_late(buf, force) ==
    \/ buf = <<>>
    \/ ~force /\ Len(buf) < max_events /\ now <= _next_flush

\* flush_not_needed as it would be without the test for an empty buffer
flush_not_needed_nonempty_only(buf, force) ==
    ~force /\ Len(buf) < max_events /\ now < _next_flush

\* lines 123-127: the buffer stays as it is
flush_not_needed(buf, force) ==
    \/ buf = <<>>
    \/ ~force /\ Len(buf) < max_events /\ now < _next_flush

\* _flush_if_needed(force) on the buffer buf; raised' tells whether it raised
_flush_if_needed(buf, force, ok) ==
    IF flush_not_needed(buf, force)
    THEN /\ _buf' = buf
         /\ _next_flush' = IF buf = <<>> THEN now + flush_sec ELSE _next_flush
         /\ flush_boundary' =
                IF buf = <<>>
                THEN [flush_boundary EXCEPT
                         !.empty = now,
                         !.flushed = IF force \/ now >= _next_flush THEN now ELSE @]
                ELSE flush_boundary
         /\ ok
         /\ UNCHANGED <<segments, sqlite_sequence, nfail, urandom, hmac_oracle,
                        _current_key, _prev_tag, _last_chain_tag>>
    ELSE /\ _buf' = <<>>
         /\ _next_flush' = now + flush_sec
         /\ flush_boundary' = [flush_boundary EXCEPT !.flushed = now]
         /\ \E suite \in pick_suite(HAVE_PYCRYPTO) : _write_segment(buf, suite, ok)

Work == nrec + (nsess - 1) + nfail + now
\* the step is taken while the store is still being written and fits the budget
Budget(cost) == report = <<>> /\ Work + cost <= MaxWork
Cost(ok) == IF ok THEN 0 ELSE 1
TBudget(cost) == report = <<>> /\ Work + cost <= MaxThreadWork

\* add_event(ev): the dispatcher hands over the record of one event
add_event ==
    /\ UNCHANGED notSeg
    /\ nrec' = nrec + 1
    /\ \E ok \in BOOLEAN :
          /\ Budget(1 + Cost(ok))
          /\ _flush_if_needed(Append(_buf, nrec + 1), FALSE, ok)
    /\ UNCHANGED <<sess, _stop, _thr, now, nsess, HAVE_PYCRYPTO, report, threadVars>>

\* stop(): set the event, join with a timeout (the thread may outlive it),
\* then the final forced flush
stop ==
    /\ UNCHANGED notSeg
    /\ _stop' = TRUE
    /\ \E joined \in BOOLEAN : _thr' = (_thr /\ ~joined)
    /\ \E ok \in BOOLEAN :
          /\ Budget(Cost(ok))
          /\ _flush_if_needed(_buf, TRUE, ok)
    /\ UNCHANGED <<sess, now, nrec, nsess, HAVE_PYCRYPTO, report, threadVars>>

\* start(): the poller thread is created unless one is alive
start ==
    /\ UNCHANGED notSeg
    /\ Budget(0)
    /\ ~_thr
    /\ _stop' = FALSE
    /\ _thr' = TRUE
    /\ UNCHANGED <<storeVars, sess, _current_key, _prev_tag, _last_chain_tag, _buf, _next_flush,
                   flush_boundary, envVars, report, threadVars>>

\* _loop: one turn of the poller, the check run without interruption; an
\* append that raises ends the thread
_loop ==
    /\ UNCHANGED notSeg
    /\ _thr
    /\ ~_stop
    /\ \E ok \in BOOLEAN :
          /\ Budget(Cost(ok))
          /\ _flush_if_needed(_buf, FALSE, ok)
          /\ _thr' = ok
    /\ UNCHANGED <<sess, _stop, now, nrec, nsess, HAVE_PYCRYPTO, report, threadVars>>

\* time.time() advances
Tick ==
    /\ UNCHANGED notSeg
    /\ Budget(1)
    /\ now' = now + 1
    /\ UNCHANGED <<storeVars, writerVars, urandom, nrec, nfail, nsess, HAVE_PYCRYPTO, hmac_oracle, report, threadVars>>

\* SegmentWriter.__init__ in a process, lines 75-91
writer_init(have) ==
    /\ sess = start_session(<<"urandom", 16, 1>>)
    /\ _current_key = sess.session_key
    /\ _prev_tag = zero_bytes(16)
    /\ _last_chain_tag = zero_bytes(32)
    /\ _buf = <<>>
    /\ _stop = FALSE
    /\ _thr = FALSE
    /\ _next_flush = flush_sec
    /\ flush_boundary = [flushed |-> 0, empty |-> 0]
    /\ HAVE_PYCRYPTO = have

\* The process exits and a new one constructs SegmentStore and SegmentWriter
\* over the same database and secrets: a new session.
new_process ==
    /\ UNCHANGED notSeg
    /\ Budget(1)
    /\ nsess' = nsess + 1
    /\ urandom' = urandom + 1
    /\ sess' = start_session(fresh(16))
    /\ _current_key' = sess'.session_key
    /\ _prev_tag' = zero_bytes(16)
    /\ _last_chain_tag' = zero_bytes(32)
    /\ _buf' = <<>>
    /\ _stop' = FALSE
    /\ _thr' = FALSE
    /\ _next_flush' = now + flush_sec
    /\ flush_boundary' = [flushed |-> now, empty |-> now]
    /\ UNCHANGED <<storeVars, now, nrec, nfail, HAVE_PYCRYPTO, hmac_oracle, report, threadVars>>

\* ------------------------------------------------------ core/hooks/events.py
Times == 0..MaxT
\* __post_init__ of each event class sets etype; AnomalyEvent reuses COMMAND
etype_of(class) ==
    CASE class = "KeyEvent" -> "KEY"
      [] class = "MouseEvent" -> "MOUSE"
      [] class = "ClipboardEvent" -> "CLIPBOARD"
      [] class = "CommandEvent" -> "COMMAND"
      [] class = "FocusEvent" -> "FOCUS"
      [] class = "AnomalyEvent" -> "COMMAND"
KeyEvents ==
    [class : {"KeyEvent"}, etype : {etype_of("KeyEvent")}, t_mono : Times,
     key : {"c", "C", "x", "v", "a"}, action : {"down", "up"},
     mods : {{}, {"shift"}, {"ctrl"}, {"cmd"}, {"ctrl", "shift"}}]
MouseEvents ==
    [class : {"MouseEvent"}, etype : {etype_of("MouseEvent")}, t_mono : Times,
     button : {"left", "right", "middle", "None"}, action : {"down", "up", "scroll"}]
ClipboardEvents ==
    [class : {"ClipboardEvent"}, etype : {etype_of("ClipboardEvent")},
     t_mono : Times, length : 0..MaxLen]
\* what the listeners and the clipboard watcher put on the queue
RawEvents == KeyEvents \cup MouseEvents \cup ClipboardEvents
CommandTypes == {"copy", "cut", "paste", "paste_context", "paste_primary_possible"}
\* command events as they stand on the queue
CommandEvents ==
    [class : {"CommandEvent"}, etype : {etype_of("CommandEvent")},
     t_mono : Times, command : CommandTypes]
AnomalyEvents ==
    [class : {"AnomalyEvent"}, etype : {etype_of("AnomalyEvent")},
     t_mono : Times, severity : {"medium", "high"}]
\* str.lower() on the keys above
lower(k) == IF k = "C" THEN "c" ELSE k
CommandEvent(command, source) == [command |-> command, source |-> source]

\* --------------------------------------- app/controller/paste_classifier.py
\* PasteClassifier.__init__ with config.primary_hint = hint
PasteClassifier_init(hint) ==
    /\ primary_hint = hint
    /\ _last_right_click_mono = <<>>
    /\ _last_clip_change_mono = <<>>
    /\ _last_context_emit_mono = <<>>

\* "not x" for x an Optional[float]: None and 0.0 are both false
falsy(x) == x = <<>> \/ x[1] = 0

\* the hotkey commands as they would be if only ctrl counted as the modifier
hotkey_cmds_ctrl_only(ev) ==
    IF /\ ev.etype = "KEY" /\ ev.class = "KeyEvent" /\ ev.action = "down"
       /\ "ctrl" \in ev.mods
    THEN IF lower(ev.key) = "c" THEN <<CommandEvent("copy", "hotkey")>>
         ELSE IF lower(ev.key) = "x" THEN <<CommandEvent("cut", "hotkey")>>
         ELSE IF lower(ev.key) = "v" THEN <<CommandEvent("paste", "hotkey")>>
         ELSE <<>>
    ELSE <<>>

\* lines 54-63: the hotkey commands
hotkey_cmds(ev) ==
    IF /\ ev.etype = "KEY" /\ ev.class = "KeyEvent" /\ ev.action = "down"
       /\ ("ctrl" \in ev.mods \/ "cmd" \in ev.mods)
    THEN IF lower(ev.key) = "c" THEN <<CommandEvent("copy", "hotkey")>>
         ELSE IF lower(ev.key) = "x" THEN <<CommandEvent("cut", "hotkey")>>
         ELSE IF lower(ev.key) = "v" THEN <<CommandEvent("paste", "hotkey")>>
         ELSE <<>>
    ELSE <<>>

\* lines 66-68: the right click remembered after the event
right_click_after(ev) ==
    IF /\ ev.etype = "MOUSE" /\ ev.class = "MouseEvent"
       /\ ev.button = "right" /\ ev.action \in {"down", "up"}
    THEN <<ev.t_mono>>
    ELSE _last_right_click_mono

\* lines 70-71: the primary-selection hint
primary_cmds(ev) ==
    IF /\ ev.etype = "MOUSE" /\ ev.class = "MouseEvent"
       /\ primary_hint /\ ev.button = "middle" /\ ev.action = "down"
    THEN <<CommandEvent("paste_primary_possible", "primary")>>
    ELSE <<>>

\* lines 74-78: the tests that lead to the paste_context emission at line 79
context_emits(ev, t_now) ==
    /\ ev.etype = "CLIPBOARD"
    /\ right_click_after(ev) # <<>>
    /\ ev.t_mono - right_click_after(ev)[1] <= context_window_sec
    /\ \/ falsy(_last_context_emit_mono)
       \/ t_now - _last_context_emit_mono[1] >= context_cooldown_sec

\* process(ev) with t_now the reading of self.clock() at line 51: the commands
\* it emits, in order, and the state it leaves
PasteClassifier_process(ev, t_now) ==
    [out |-> hotkey_cmds(ev) \o primary_cmds(ev)
             \o (IF context_emits(ev, t_now)
                 THEN <<CommandEvent("paste_context", "context")>> ELSE <<>>),
     rc |-> right_click_after(ev),
     clip |-> IF ev.etype = "CLIPBOARD" THEN <<ev.t_mono>> ELSE _last_clip_change_mono,
     emit |-> IF context_emits(ev, t_now) THEN <<t_now>> ELSE _last_context_emit_mono]

\* ------------------------------------------------ app/analytics/metrics.py
\* MetricsTracker.__init__ with t0 the reading of time.perf_counter() at line 37
MetricsTracker_init(t0) ==
    /\ _keys_window = <<>>
    /\ _intervals = <<>>
    /\ _last_key_down_t = <<>>
    /\ _last_event_t = t0

\* the tracker's fields
metrics ==
    [keys_window |-> _keys_window, intervals |-> _intervals,
     last_key_down_t |-> _last_key_down_t, last_event_t |-> _last_event_t]

\* while q and q[0][0] < cut: q.popleft()
RECURSIVE popleft_pairs_below(_, _)
popleft_pairs_below(q, cut) ==
    IF q # <<>> /\ q[1][1] < cut THEN popleft_pairs_below(Tail(q), cut) ELSE q

\* max(a, b)
max(a, b) == IF a >= b THEN a ELSE b

\* MetricsTracker._gc as it would be if it trimmed nothing
MetricsTracker_gc_none(m, t_ev) == m
\* MetricsTracker._gc(now) on tracker m
MetricsTracker_gc(m, t_ev) ==
    [m EXCEPT !.keys_window = popleft_pairs_below(@, t_ev - max(wpm_window_s, cpm_window_s)),
              !.intervals = popleft_pairs_below(@, t_ev - entropy_window_s)]

\* MetricsTracker.observe_key(ev) on tracker m: the tracker it leaves
MetricsTracker_observe_key(m, ev) ==
    LET t_ev == ev.t_mono
        m1 == [m EXCEPT !.last_event_t = t_ev]
        m2 == IF ev.action = "down"
              THEN [m1 EXCEPT
                      !.intervals =
                          IF m.last_key_down_t # <<>> /\ t_ev - m.last_key_down_t[1] > 0
                          THEN Append(@, <<t_ev, t_ev - m.last_key_down_t[1]>>)
                          ELSE @,
                      !.last_key_down_t = <<t_ev>>,
                      !.keys_window = Append(@, <<t_ev, ev.key>>)]
              ELSE m1
    IN  MetricsTracker_gc(m2, t_ev)

RECURSIVE sum_dt(_)
sum_dt(intervals) ==
    IF intervals = <<>> THEN 0 ELSE intervals[1][2] + sum_dt(Tail(intervals))
RECURSIVE sum_dt_sq(_)
sum_dt_sq(intervals) ==
    IF intervals = <<>> THEN 0
    ELSE intervals[1][2] * intervals[1][2] + sum_dt_sq(Tail(intervals))

\* MetricsTracker.interkey_uniformity_cv(): <<>> is None; otherwise the pair
\* <<p, q>> with (std / mean)^2 = p / q, std taken with ddof=1:
\* n (n Q - S^2) / ((n - 1) S^2) for n intervals of sum S and sum of squares Q
interkey_uniformity_cv(intervals) ==
    LET n == Len(intervals)
        S == sum_dt(intervals)
        Q == sum_dt_sq(intervals)
    IN  IF n < 2 THEN <<>>
        ELSE IF S <= 0 THEN <<>>
        ELSE <<n * (n * Q - S * S), (n - 1) * S * S>>

\* cv <= threshold, the threshold in hundredths
cv_le(cv, threshold) == 10000 * cv[1] <= threshold * threshold * cv[2]

\* ------------------------------------------- app/analytics/anomaly_engine.py
\* AnomalyEngine.__init__ with t0 the reading of time.perf_counter() at line 37
AnomalyEngine_init(t0) ==
    /\ _recent_keys = <<>>
    /\ _paste_times = <<>>
    /\ _last_non_idle_t = t0

AnomalyEvent(severity, rule_id, features) ==
    [rule_id |-> rule_id, severity |-> severity, features |-> features]

\* while q and q[0] < cutoff: q.popleft()
RECURSIVE popleft_below(_, _)
popleft_below(q, cutoff) ==
    IF q # <<>> /\ q[1] < cutoff THEN popleft_below(Tail(q), cutoff) ELSE q

\* _idle_to_burst as it would be if either test sufficed
_idle_to_burst_either(t_ev, clip_len, last_t) ==
    IF t_ev - last_t >= idle_threshold_s \/ clip_len >= burst_min_len
    THEN <<AnomalyEvent("high", "idle_to_burst",
                        [idle_s |-> t_ev - last_t, clip_len |-> clip_len])>>
    ELSE <<>>

\* _idle_to_burst(now, clip_len) with last_t the value of _last_non_idle_t:
\* the anomalies it puts; t_ev is the source's now, the event's t_mono
_idle_to_burst(t_ev, clip_len, last_t) ==
    IF t_ev - last_t >= idle_threshold_s /\ clip_len >= burst_min_len
    THEN <<AnomalyEvent("high", "idle_to_burst",
                        [idle_s |-> t_ev - last_t, clip_len |-> clip_len])>>
    ELSE <<>>

\* line 83: sum(1 for t in keys if t >= cutoff)
recent_count(keys, cutoff) ==
    Cardinality({i \in 1..Len(keys) : keys[i] >= cutoff})

\* _text_injection_without_typing(now, clip_len) with keys the deque
\* _recent_keys: the anomalies it puts
_text_injection_without_typing(t_ev, clip_len, keys) ==
    IF /\ clip_len >= text_insertion_min
       /\ recent_count(keys, t_ev - keys_window_s) <= keys_small_max
    THEN <<AnomalyEvent("high", "text_injection",
                        [clip_len |-> clip_len,
                         keys_recent |-> recent_count(keys, t_ev - keys_window_s),
                         window_s |-> keys_window_s])>>
    ELSE <<>>

\* _note_paste(now) and then lines 94-96 of _multi_paste_streaks(now): the
\* deque _paste_times they leave
paste_times_after(t_ev, times) ==
    popleft_below(Append(times, t_ev), t_ev - paste_window_s)

\* the streak rule as it would be if it needed more than paste_streak_n pastes
_multi_paste_streaks_strict(times) ==
    IF Len(times) > paste_streak_n
    THEN <<AnomalyEvent("medium", "multi_paste_streak",
                        [count |-> Len(times), window_s |-> paste_window_s])>>
    ELSE <<>>

\* the streak rule as it would be if it put one anomaly for each paste counted
_multi_paste_streaks_each(times) ==
    IF Len(times) >= paste_streak_n
    THEN [i \in 1..Len(times) |->
            AnomalyEvent("medium", "multi_paste_streak",
                         [count |-> Len(times), window_s |-> paste_window_s])]
    ELSE <<>>

\* lines 97-101 of _multi_paste_streaks with times the trimmed deque
_multi_paste_streaks(times) ==
    IF Len(times) >= paste_streak_n
    THEN <<AnomalyEvent("medium", "multi_paste_streak",
                        [count |-> Len(times), window_s |-> paste_window_s])>>
    ELSE <<>>

\* _timing_entropy_check as it would be without the test on the sample count
_timing_entropy_check_any_count(intervals) ==
    LET cv == interkey_uniformity_cv(intervals) IN
    IF cv = <<>> THEN <<>>
    ELSE IF cv_le(cv, uniform_cv_threshold)
    THEN <<AnomalyEvent("medium", "timing_uniformity",
                        [cv |-> cv, samples |-> Len(intervals)])>>
    ELSE <<>>

\* _timing_entropy_check() with intervals the deque metrics._intervals
_timing_entropy_check(intervals) ==
    LET cv == interkey_uniformity_cv(intervals) IN
    IF cv = <<>> THEN <<>>
    ELSE IF cv_le(cv, uniform_cv_threshold) /\ Len(intervals) >= min_interkey_samples
    THEN <<AnomalyEvent("medium", "timing_uniformity",
                        [cv |-> cv, samples |-> Len(intervals)])>>
    ELSE <<>>

\* _gc(now) on the deque keys
_gc(t_ev, keys) == popleft_below(keys, t_ev - keys_window_s)

is_key_down(ev) ==
    ev.etype = "KEY" /\ ev.class = "KeyEvent" /\ ev.action = "down"
is_clipboard(ev) ==
    ev.etype = "CLIPBOARD" /\ ev.class = "ClipboardEvent"
is_paste_command(ev) ==
    /\ ev.etype = "COMMAND" /\ ev.class = "CommandEvent"
    /\ ev.command \in {"paste", "paste_context"}

\* process(ev), lines 39-68: the anomalies it puts, in order, and the state it
\* leaves
AnomalyEngine_process(ev) ==
    LET t_ev == ev.t_mono
        is_key == ev.etype = "KEY" /\ ev.class = "KeyEvent"
        keys == IF is_key_down(ev) THEN Append(_recent_keys, t_ev) ELSE _recent_keys
        last_t == IF is_key_down(ev) THEN t_ev ELSE _last_non_idle_t
        m == IF is_key THEN MetricsTracker_observe_key(metrics, ev) ELSE metrics
        times == IF is_paste_command(ev) THEN paste_times_after(t_ev, _paste_times)
                 ELSE _paste_times
    IN [out |-> (IF is_clipboard(ev)
                 THEN _idle_to_burst(t_ev, ev.length, last_t)
                      \o _text_injection_without_typing(t_ev, ev.length, keys)
                 ELSE <<>>)
                \o (IF is_paste_command(ev) THEN _multi_paste_streaks(times) ELSE <<>>)
                \o (IF ev.etype = "KEY" THEN _timing_entropy_check(m.intervals) ELSE <<>>),
        keys |-> _gc(t_ev, keys),
        times |-> times,
        last_t |-> last_t,
        metrics |-> m]

\* ------------------------------------------------ app/controller/runner.py
\* what _consume_loop hands each event to, in this order
Components == {"classifier", "anomaly", "seg_writer", "on_event"}
no_event == [n |-> 0]
AppNames == {"editor", "browser"}
\* the n-th event taken off the queue: a focus event naming an application,
\* or an event of another class, whose app is None as the hooks leave it
DequeuedEvents(n) ==
    [n : {n}, class : {"FocusEvent"}, app_name : AppNames, app : {"None"}, t_mono : {n}]
    \cup [n : {n}, class : {"KeyEvent", "AnomalyEvent"}, app : {"None"}, t_mono : {n}]

\* ---------------------------------------------------- core/hooks/events.py
\* utc_iso() and mono_ts() when the time is t: the wall clock is formatted
\* with millisecond precision, the monotonic clock is read as it is
utc_iso(t) == "1970-01-01T00:00:0" \o ToString(t) \o ".000+00:00"
mono_ts(t) == t

\* BaseEvent's fields as a subclass's constructor leaves them by default
BaseEvent(class, t) ==
    [class |-> class, etype |-> etype_of(class), t_utc |-> "None",
     t_mono |-> mono_ts(t), app |-> "None"]
\* BaseEvent.to_record at time t; `self.t_utc or utc_iso()`
BaseEvent_to_record(ev, t) ==
    [etype |-> ev.etype,
     t_utc |-> IF ev.t_utc \in {"None", ""} THEN utc_iso(t) ELSE ev.t_utc,
     t_mono |-> ev.t_mono,
     app |-> ev.app]

\* sorted(self.mods)
ModOrder == <<"alt", "cmd", "ctrl", "shift">>
sorted(mods) == SelectSeq(ModOrder, LAMBDA m : m \in mods)

\* ClipboardEvent(action=CHANGE, length=..., kind="text", session_digest=...)
\* created at time t; a digest is <<"None">> for None
ClipboardEvent(length, session_digest, t) ==
    BaseEvent("ClipboardEvent", t)
    @@ [action |-> "change", length |-> length, kind |-> "text",
        session_digest |-> session_digest]
\* ClipboardEvent.to_record as it would be without the session_digest entry
ClipboardEvent_to_record_no_digest(ev, t) ==
    BaseEvent_to_record(ev, t)
    @@ [action |-> ev.action, length |-> ev.length, kind |-> ev.kind]
ClipboardEvent_to_record(ev, t) ==
    BaseEvent_to_record(ev, t)
    @@ [action |-> ev.action, length |-> ev.length, kind |-> ev.kind,
        session_digest |-> ev.session_digest]

\* to_record of each event class, at time t
to_record(ev, t) ==
    CASE ev.class = "KeyEvent" ->
           BaseEvent_to_record(ev, t)
           @@ [key |-> ev.key, action |-> ev.action, mods |-> sorted(ev.mods),
               scan_code |-> ev.scan_code]
      [] ev.class = "MouseEvent" ->
           BaseEvent_to_record(ev, t)
           @@ [button |-> ev.button, action |-> ev.action, clicks |-> ev.clicks,
               x |-> ev.x, y |-> ev.y]
      [] ev.class = "ClipboardEvent" -> ClipboardEvent_to_record(ev, t)
      [] ev.class = "CommandEvent" ->
           BaseEvent_to_record(ev, t)
           @@ [command |-> ev.command, source |-> ev.source, notes |-> ev.notes]
      [] ev.class = "FocusEvent" ->
           BaseEvent_to_record(ev, t)
           @@ [app_name |-> ev.app_name, pid |-> ev.pid, title |-> ev.title,
               dwell_prev_s |-> ev.dwell_prev_s]
      [] ev.class = "AnomalyEvent" ->
           BaseEvent_to_record(ev, t)
           @@ [severity |-> ev.severity, rule_id |-> ev.rule_id,
               rationale |-> ev.rationale, features |-> ev.features]

\* one event of each other class, as the hooks, the classifier, the focus
\* tracker and the engine construct them at time t
OtherEvents(t) ==
    { BaseEvent("KeyEvent", t)
        @@ [key |-> "v", action |-> "down", mods |-> {"shift", "ctrl"},
            scan_code |-> "None"],
      BaseEvent("MouseEvent", t)
        @@ [button |-> "right", action |-> "down", clicks |-> "None",
            x |-> "None", y |-> "None"],
      BaseEvent("CommandEvent", t)
        @@ [command |-> "paste", source |-> "hotkey", notes |-> "None"],
      BaseEvent("FocusEvent", t)
        @@ [app_name |-> "editor", pid |-> "None", title |-> "None",
            dwell_prev_s |-> "None"],
      BaseEvent("AnomalyEvent", t)
        @@ [severity |-> "high", rule_id |-> "idle_to_burst", rationale |-> "",
            features |-> <<>>] }

\* ------------------------------------------ core/clipboard/clipboard_watcher.py
\* clipboard texts: "a" is a character UTF-8 can encode, "hi" and "lo" are the
\* lone surrogates U+D800 and U+DC00, which it cannot
Texts ==
    { <<>>, <<"a">>, <<"a", "hi">>, <<"a", "lo">> }
\* read_clipboard() returned None
no_text == <<"None">>
session_salt == "salt"
\* txt.encode(errors="ignore")
encode(txt) == SelectSeq(txt, LAMBDA c : c \notin {"hi", "lo"})
\* blake3 over salt then data, as hex; collision-free
blake3_hexdigest(salt, data) == <<"blake3", salt, data>>
\* lines 75-86: sig = (length, digest_hex); "" is <<>>
sig_of(txt, enable) ==
    <<Len(txt), IF enable THEN blake3_hexdigest(session_salt, encode(txt)) ELSE <<>> >>
\* digest_hex or None
or_None(digest_hex) == IF digest_hex = <<>> THEN <<"None">> ELSE digest_hex
no_ev == [class |-> "none"]
\* ClipboardWatcher(poll_sec=0.2) and its _max_interval = 1.0, in milliseconds
poll_sec == 200
_max_interval == 1000
\* lines 101-103: the no-change branch; interval * 1.5 in whole milliseconds
backoff(interval, ticks) ==
    LET n == ticks + 1
        grown == (interval * 3) \div 2
    IN  [ticks |-> n,
         interval |-> IF interval < _max_interval /\ n % 5 = 0
                      THEN IF grown < _max_interval THEN grown ELSE _max_interval
                      ELSE interval]
\* one turn of ClipboardWatcher._loop, lines 73-103, of watcher w at time t when
\* read_clipboard returns txt; .emit holds the event put on the queue, if any
ClipboardWatcher_turn(w, txt, t) ==
    IF txt = no_text
    THEN [sig |-> w.sig, interval |-> w.interval, ticks |-> w.ticks, emit |-> <<>>]
    ELSE LET sig == sig_of(txt, w.enable) IN
         IF sig # w.sig
         THEN [sig |-> sig, interval |-> poll_sec, ticks |-> 0,
               emit |-> <<ClipboardEvent(sig[1], or_None(sig[2]), t)>>]
         ELSE [sig |-> w.sig,
               interval |-> backoff(w.interval, w.ticks).interval,
               ticks |-> backoff(w.interval, w.ticks).ticks,
               emit |-> <<>>]
nothing == [txt |-> no_text, en |-> TRUE, ev |-> no_ev]

\* ------------------------------------------------ tools/verify_segments.py
hkdf_derive(master, length, salt, info) == HKDF(master, length, salt, info)

STEM_KEYS == <<"ver", "suite", "session", "padded_len", "hkdf_info", "prev_tag", "sign_pub">>

\* aad_from_header_stem(header); KeyError when a stem key is missing
has_stem(header) == \A i \in 1..Len(STEM_KEYS) : dict_has(header, STEM_KEYS[i])
aad_from_header_stem(header) ==
    json_dumps([i \in 1..Len(STEM_KEYS) |-> <<STEM_KEYS[i], dict_val(header, STEM_KEYS[i])>>],
               "compact", FALSE)

\* header_bytes_for_sig as it would be without sort_keys=True
header_bytes_for_sig_unsorted(header) == json_dumps(dict_pop(header, "sig"), "compact", FALSE)
header_bytes_for_sig(header) == json_dumps(dict_pop(header, "sig"), "compact", TRUE)

\* lines 103-112: the signature check does not raise
sig_check(header) ==
    /\ dict_has(header, "sign_pub")
    /\ dict_has(header, "sig")
    /\ ed25519_verify(fromhex(dict_val(header, "sign_pub")),
                      fromhex(dict_val(header, "sig")),
                      header_bytes_for_sig(header))

\* lines 119-130: session_state.get(session_id), created on first sight
session_of(session_state, master, session_id) ==
    IF dict_has(session_state, session_id)
    THEN dict_val(session_state, session_id)
    ELSE [chain_key |-> hkdf_derive(master, 32, fromhex(session_id), "hmac-chain"),
          prev_chain_tag |-> zero_bytes(32),
          current_key |-> hkdf_derive(master, 32, fromhex(session_id), "session-key")]

\* lines 132-137
expected_chain_tag(vs, header, body) ==
    hex(HMAC(vs.chain_key, <<aad_from_header_stem(header)>> \o body \o <<vs.prev_chain_tag>>))

\* chain_check as it would be if the recomputed tag were not compared with the stored one
chain_check_uncompared(vs, header, body) ==
    /\ has_stem(header)
    /\ dict_has(header, "chain_tag")
    /\ expected_chain_tag(vs, header, body) = expected_chain_tag(vs, header, body)

\* lines 139-140: no ValueError("chain_tag mismatch") and no KeyError
chain_check(vs, header, body) ==
    /\ has_stem(header)
    /\ dict_has(header, "chain_tag")
    /\ expected_chain_tag(vs, header, body) = dict_val(header, "chain_tag")

\* v_seg_key as it would be if it derived 32 bytes whatever the suite
v_seg_key_len32(vs, header) ==
    hkdf_derive(vs.current_key, 32,
                fromhex(dict_val(header, "prev_tag")), dict_val(header, "hkdf_info"))

\* line 170
v_seg_key(vs, header) ==
    LET suite == dict_val(header, "suite") IN
    hkdf_derive(vs.current_key, IF suite = SUITE_CHACHA20P THEN 32 ELSE 64,
                fromhex(dict_val(header, "prev_tag")), dict_val(header, "hkdf_info"))

\* lines 153-190: the decrypt check does not raise
decrypt_check(vs, header, body, have_pycrypto) ==
    /\ has_stem(header)
    /\ dict_val(header, "suite") \in {SUITE_CHACHA20P, SUITE_AES_SIV}
    /\ LET seg_key == v_seg_key(vs, header)
           aad == aad_from_header_stem(header)
       IN IF dict_val(header, "suite") = SUITE_CHACHA20P
          THEN /\ dict_has(header, "nonce")
               /\ chacha_decrypt_ok(seg_key, fromhex(dict_val(header, "nonce")), body, aad)
          ELSE \/ ~have_pycrypto
               \/ /\ Len(body) >= 1
                  /\ siv_decrypt_ok(seg_key, SubSeq(body, 1, Len(body) - 1),
                                    SubSeq(body, Len(body), Len(body)), aad)

\* lines 78-86: master_key is not None
key_loaded(master) == master \notin {no_key, no_file}

\* One turn of the loop at lines 94-197 on the row, from the state acc;
\* attempted lists the checks whose try block was entered
verify_row(acc, row, master, no_decrypt, have_pycrypto) ==
    LET header == json_loads(row.header)
        sig_ok == sig_check(header)
        with_key == key_loaded(master)
        sid == dict_val(header, "session")
        vs0 == session_of(acc.session_state, master, sid)
        chain_ok == with_key /\ chain_check(vs0, header, row.body)
        vs1 == IF chain_ok
               THEN [vs0 EXCEPT !.prev_chain_tag = fromhex(expected_chain_tag(vs0, header, row.body))]
               ELSE vs0
        do_decrypt == with_key /\ ~no_decrypt
        decrypt_ok == do_decrypt /\ decrypt_check(vs1, header, row.body, have_pycrypto)
        vs2 == IF decrypt_ok THEN [vs1 EXCEPT !.current_key = v_seg_key(vs1, header)] ELSE vs1
    IN IF ~json_parses(row.header)
       THEN [acc EXCEPT !.total = @ + 1,
                        !.errors = Append(@, <<row.seq, "header">>)]
       ELSE
       [total |-> acc.total + 1,
        attempted |-> acc.attempted
                   \o << <<row.seq, "signature">> >>
                   \o (IF with_key THEN << <<row.seq, "chain">> >> ELSE <<>>)
                   \o (IF do_decrypt THEN << <<row.seq, "decrypt">> >> ELSE <<>>),
        sig_ok |-> acc.sig_ok + (IF sig_ok THEN 1 ELSE 0),
        chain_ok |-> acc.chain_ok + (IF chain_ok THEN 1 ELSE 0),
        decrypt_ok |-> acc.decrypt_ok + (IF decrypt_ok THEN 1 ELSE 0),
        errors |-> acc.errors
                   \o (IF sig_ok THEN <<>> ELSE << <<row.seq, "signature">> >>)
                   \o (IF with_key /\ ~chain_ok THEN << <<row.seq, "chain">> >> ELSE <<>>)
                   \o (IF do_decrypt /\ ~decrypt_ok THEN << <<row.seq, "decrypt">> >> ELSE <<>>),
        session_state |-> IF with_key THEN dict_set(acc.session_state, sid, vs2)
                          ELSE acc.session_state]

RECURSIVE verify_rows(_, _, _, _, _)
verify_rows(acc, rows, master, no_decrypt, have_pycrypto) ==
    IF rows = <<>> THEN acc
    ELSE verify_rows(verify_row(acc, Head(rows), master, no_decrypt, have_pycrypto),
                     Tail(rows), master, no_decrypt, have_pycrypto)

\* SELECT ... ORDER BY seq ASC [LIMIT limit]; limit = 0 is no --limit
select_rows(db, limit) ==
    IF limit = 0 \/ limit >= Len(db) THEN db ELSE SubSeq(db, 1, limit)

\* verify_db(db_path, secrets_dir, limit, no_decrypt, verbose) in a process whose
\* HAVE_PYCRYPTO is have_pycrypto and whose master.key holds master
verify_db(db, master, limit, no_decrypt, have_pycrypto) ==
    LET rows == select_rows(db, limit)
        acc0 == [total |-> 0, sig_ok |-> 0, chain_ok |-> 0, decrypt_ok |-> 0,
                 errors |-> <<>>, session_state |-> <<>>, attempted |-> <<>>]
    IN IF rows = <<>>
       THEN [acc0 EXCEPT !.errors = << <<0, "No rows found in segments table.">> >>]
       ELSE verify_rows([acc0 EXCEPT !.errors =
                            IF master = no_file
                            THEN << <<0, "master.key not found">> >> ELSE <<>>],
                        rows, master, no_decrypt, have_pycrypto)

\* main(), lines 233-240: the status it exits with, given verify_db's result
exit_status(result) == IF result.errors # <<>> THEN 2 ELSE 0

\* The administrator runs "verify --limit N" on the store, after the fact.
verify ==
    /\ UNCHANGED notSeg
    /\ report = <<>>
    /\ \E limit \in 0..Len(segments), have \in BOOLEAN :
          report' = << [limit |-> limit, have_pycrypto |-> have,
                        result |-> verify_db(segments, master_key, limit, FALSE, have)] >>
    /\ UNCHANGED <<storeVars, writerVars, envVars, threadVars>>

Init ==
    /\ segments = <<>>
    /\ sqlite_sequence = 0
    /\ \E have \in BOOLEAN : writer_init(have)
    /\ now = 0
    /\ urandom = 1
    /\ nrec = 0
    /\ nfail = 0
    /\ nsess = 1
    /\ hmac_oracle = <<>>
    /\ report = <<>>
    /\ _stop_evt = FALSE
    /\ pc = [t \in Threads |-> "idle"]
    /\ loc = [t \in Threads |-> no_locals]
    /\ event_queue = <<>>
    /\ q_nput = 0
    /\ q_got = <<>>
    /\ sp_pc = [p \in Producers |-> "idle"]
    /\ sp_item = [p \in Producers |-> 0]
    /\ sp_ncall = 0
    /\ PasteClassifier_init(TRUE)
    /\ clock = 0
    /\ cls_out = <<>>
    /\ ctx_emits = <<>>
    /\ cls_n = 0
    /\ AnomalyEngine_init(0)
    /\ MetricsTracker_init(0)
    /\ eng_out = <<>>
    /\ eng_t0 = 0
    /\ key_log = <<>>
    /\ paste_log = <<>>
    /\ cmd_clock = 0
    /\ key_clock = 0
    /\ eng_n = 0
    /\ crypto_failed = 0
    /\ d_pc = "get"
    /\ d_ev = no_event
    /\ d_raw = no_event
    /\ d_n = 0
    /\ ctx_app = "unknown"
    /\ got = [c \in Components |-> <<>>]
    /\ raised = {}
    /\ enable_session_digest = TRUE
    /\ _last_sig = <<>>
    /\ _interval = poll_sec
    /\ _unchanged_ticks = 0
    /\ clk = 0
    /\ cur = nothing
    /\ last_rec = nothing

Next ==
    \/ add_event
    \/ stop
    \/ Tick
    \/ new_process

Spec == Init /\ [][Next]_vars

\* The writer's runs, each ended by one run of the verifier.
NextVerify ==
    \/ Next
    \/ verify

SpecVerify == Init /\ [][NextVerify]_vars

\* The writer with its poller thread started, each check run without interruption.
NextPoll ==
    \/ Next
    \/ start
    \/ _loop

SpecPoll == Init /\ [][NextPoll]_vars

\* ------------------------- a flush that raises before the segment is built
\* _flush_if_needed(force) on the buffer buf when suite.encrypt, the chain
\* HMAC or the signature raises (lines 161-175): the batch has been swapped
\* out at lines 128-130, and the exception leaves _write_segment before the
\* assignments of lines 179-181 and the append of line 184
flush_crypto_fails(buf, force) ==
    /\ ~flush_not_needed(buf, force)
    /\ _buf' = <<>>
    /\ _next_flush' = now + flush_sec
    /\ flush_boundary' = [flush_boundary EXCEPT !.flushed = now]
    /\ crypto_failed' = nsess
    /\ UNCHANGED <<segments, sqlite_sequence, nfail, urandom, hmac_oracle,
                   _current_key, _prev_tag, _last_chain_tag>>

\* add_event(ev) whose flush raises so: the dispatcher logs the exception
\* (runner.py lines 98-102) and goes on
add_event_crypto_fails ==
    /\ UNCHANGED <<queueVars, putVars, clsVars, engVars, dispVars, recVars>>
    /\ Budget(1)
    /\ nrec' = nrec + 1
    /\ flush_crypto_fails(Append(_buf, nrec + 1), FALSE)
    /\ UNCHANGED <<sess, _stop, _thr, now, nsess, HAVE_PYCRYPTO, report, threadVars>>

\* a turn of the poller whose flush raises so: the exception ends the thread
_loop_crypto_fails ==
    /\ UNCHANGED <<queueVars, putVars, clsVars, engVars, dispVars, recVars>>
    /\ _thr
    /\ ~_stop
    /\ Budget(0)
    /\ flush_crypto_fails(_buf, FALSE)
    /\ _thr' = FALSE
    /\ UNCHANGED <<sess, _stop, now, nrec, nsess, HAVE_PYCRYPTO, report, threadVars>>

NextCrypto ==
    \/ NextPoll
    \/ add_event_crypto_fails
    \/ _loop_crypto_fails

SpecCrypto == Init /\ [][NextCrypto]_vars

\* --------------------------------------------- the same code, thread by thread
\* Each step below is one access to the state the threads share; a thread's
\* steps interleave with the other threads' steps in any order.
keepWriter == UNCHANGED <<sess, _current_key, _prev_tag, _last_chain_tag, _buf, _next_flush,
                          flush_boundary>>
keepEnv == UNCHANGED <<now, urandom, nrec, nfail, nsess, HAVE_PYCRYPTO, hmac_oracle>>
goto(t, label) == pc' = [pc EXCEPT ![t] = label]

\* where a thread continues when _flush_if_needed returns
after_return(t) == IF t = "main" THEN "done" ELSE "loop"
\* ... and when it raises: runner.py line 101 catches it for the dispatcher,
\* nothing catches it in _loop, and stop() passes it on to its caller
after_raise(t) == IF t = "disp" THEN "loop" ELSE IF t = "poll" THEN "dead" ELSE "done"

\* HookRuntime.start(): seg_writer.start() and the consumer thread
rt_start ==
    /\ UNCHANGED notSeg
    /\ TBudget(0)
    /\ pc["main"] = "idle"
    /\ _stop_evt' = FALSE
    /\ _stop' = FALSE
    /\ _thr' = TRUE
    /\ pc' = [pc EXCEPT !["main"] = "run", !["disp"] = "loop", !["poll"] = "loop"]
    /\ UNCHANGED <<storeVars, loc, report>>
    /\ keepWriter /\ keepEnv

\* HookRuntime.stop() lines 57-63: set _stop_evt, join the consumer for at most 1 s
rt_stop ==
    /\ UNCHANGED notSeg
    /\ TBudget(0)
    /\ pc["main"] = "run"
    /\ _stop_evt' = TRUE
    /\ goto("main", "stop")
    /\ UNCHANGED <<storeVars, _stop, _thr, loc, report>>
    /\ keepWriter /\ keepEnv

\* SegmentWriter.stop() lines 100-102: set _stop, join the poller for at most 1 s;
\* line 104 follows as the forced flush
t_stop ==
    /\ UNCHANGED notSeg
    /\ TBudget(0)
    /\ pc["main"] = "stop"
    /\ _stop' = TRUE
    /\ goto("main", "flush")
    /\ loc' = [loc EXCEPT !["main"] = [no_locals EXCEPT !.force = TRUE]]
    /\ UNCHANGED <<storeVars, _stop_evt, _thr, report>>
    /\ keepWriter /\ keepEnv

\* _consume_loop lines 69-71: the loop test, then an event is dequeued
disp_loop ==
    /\ UNCHANGED notSeg
    /\ pc["disp"] = "loop"
    /\ IF _stop_evt
       THEN /\ TBudget(0)
            /\ goto("disp", "dead")
            /\ UNCHANGED nrec
       ELSE /\ TBudget(1)
            /\ goto("disp", "add")
            /\ nrec' = nrec + 1
    /\ UNCHANGED <<storeVars, _stop_evt, _stop, _thr, loc, report,
                   now, urandom, nfail, nsess, HAVE_PYCRYPTO, hmac_oracle>>
    /\ keepWriter

\* t_add_event as it would be if the record were inserted at the front of _buf
t_add_event_front ==
    /\ UNCHANGED notSeg
    /\ TBudget(0)
    /\ pc["disp"] = "add"
    /\ _buf' = <<nrec>> \o _buf
    /\ goto("disp", "flush")
    /\ loc' = [loc EXCEPT !["disp"] = no_locals]
    /\ UNCHANGED <<storeVars, sess, _current_key, _prev_tag, _last_chain_tag, _next_flush,
                   flush_boundary,
                   _stop_evt, _stop, _thr, report>>
    /\ keepEnv

\* add_event lines 108-110: the append under the lock; line 111 follows
t_add_event ==
    /\ UNCHANGED notSeg
    /\ TBudget(0)
    /\ pc["disp"] = "add"
    /\ _buf' = Append(_buf, nrec)
    /\ goto("disp", "flush")
    /\ loc' = [loc EXCEPT !["disp"] = no_locals]
    /\ UNCHANGED <<storeVars, sess, _current_key, _prev_tag, _last_chain_tag, _next_flush,
                   flush_boundary,
                   _stop_evt, _stop, _thr, report>>
    /\ keepEnv

\* _loop lines 116-118: the loop test and the sleep
poll_loop ==
    /\ UNCHANGED notSeg
    /\ TBudget(0)
    /\ pc["poll"] = "loop"
    /\ IF _stop
       THEN goto("poll", "dead") /\ _thr' = FALSE /\ UNCHANGED loc
       ELSE goto("poll", "flush") /\ UNCHANGED _thr
            /\ loc' = [loc EXCEPT !["poll"] = no_locals]
    /\ UNCHANGED <<storeVars, _stop_evt, _stop, report>>
    /\ keepWriter /\ keepEnv

\* _flush_if_needed lines 121-130: the test and the buffer swap under the lock
t_flush(t) ==
    /\ UNCHANGED notSeg
    /\ TBudget(0)
    /\ pc[t] = "flush"
    /\ IF flush_not_needed(_buf, loc[t].force)
       THEN /\ _next_flush' = IF _buf = <<>> THEN now + flush_sec ELSE _next_flush
            /\ flush_boundary' =
                   IF _buf = <<>>
                   THEN [flush_boundary EXCEPT
                            !.empty = now,
                            !.flushed = IF loc[t].force \/ now >= _next_flush THEN now ELSE @]
                   ELSE flush_boundary
            /\ goto(t, after_return(t))
            /\ UNCHANGED <<_buf, loc>>
       ELSE /\ loc' = [loc EXCEPT ![t].batch = _buf]
            /\ _buf' = <<>>
            /\ _next_flush' = now + flush_sec
            /\ flush_boundary' = [flush_boundary EXCEPT !.flushed = now]
            /\ goto(t, "w139")
    /\ UNCHANGED <<storeVars, sess, _current_key, _prev_tag, _last_chain_tag,
                   _stop_evt, _stop, _thr, report>>
    /\ keepEnv

\* _write_segment lines 139-142: pick_suite(), then self._current_key is read
t_w139(t) ==
    /\ UNCHANGED notSeg
    /\ TBudget(0)
    /\ pc[t] = "w139"
    /\ \E suite \in pick_suite(HAVE_PYCRYPTO) :
          loc' = [loc EXCEPT ![t].suite = suite, ![t].key = _current_key]
    /\ goto(t, "w142")
    /\ UNCHANGED <<storeVars, _stop_evt, _stop, _thr, report>>
    /\ keepWriter /\ keepEnv

\* line 142: self._prev_tag is read and the segment key derived
t_w142(t) ==
    /\ UNCHANGED notSeg
    /\ TBudget(0)
    /\ pc[t] = "w142"
    /\ loc' = [loc EXCEPT ![t].tag1 = _prev_tag]
    /\ goto(t, "w148")
    /\ UNCHANGED <<storeVars, _stop_evt, _stop, _thr, report>>
    /\ keepWriter /\ keepEnv

\* lines 148-161: the timestamp, self._prev_tag read again for the header, the nonce
t_w148(t) ==
    /\ UNCHANGED notSeg
    /\ TBudget(0)
    /\ pc[t] = "w148"
    /\ loc' = [loc EXCEPT ![t].ts = now * 1000, ![t].tag2 = _prev_tag, ![t].nonce = fresh(12)]
    /\ urandom' = IF loc[t].suite = SUITE_CHACHA20P THEN urandom + 1 ELSE urandom
    /\ goto(t, "w168")
    /\ UNCHANGED <<storeVars, _stop_evt, _stop, _thr, report,
                   now, nrec, nfail, nsess, HAVE_PYCRYPTO, hmac_oracle>>
    /\ keepWriter

\* lines 165-176: self._last_chain_tag is read, the chain tag and the signature made
t_w168(t) ==
    /\ UNCHANGED notSeg
    /\ TBudget(0)
    /\ pc[t] = "w168"
    /\ LET l == loc[t]
           b == ws_build(sess, l.batch, l.suite, l.nonce, l.ts, l.key, l.tag1, l.tag2,
                         _last_chain_tag)
       IN /\ loc' = [loc EXCEPT ![t].built = b]
          /\ hmac_oracle' = b.oracle
    /\ goto(t, "w179")
    /\ UNCHANGED <<storeVars, _stop_evt, _stop, _thr, report,
                   now, urandom, nrec, nfail, nsess, HAVE_PYCRYPTO>>
    /\ keepWriter

\* line 179
t_w179(t) ==
    /\ UNCHANGED notSeg
    /\ TBudget(0)
    /\ pc[t] = "w179"
    /\ _current_key' = loc[t].built.seg_key
    /\ goto(t, "w180")
    /\ UNCHANGED <<storeVars, sess, _prev_tag, _last_chain_tag, _buf, _next_flush, flush_boundary,
                   _stop_evt, _stop, _thr, loc, report>>
    /\ keepEnv

\* line 180
t_w180(t) ==
    /\ UNCHANGED notSeg
    /\ TBudget(0)
    /\ pc[t] = "w180"
    /\ _prev_tag' = prefix_bytes(loc[t].built.chain_tag, 16)
    /\ goto(t, "w181")
    /\ UNCHANGED <<storeVars, sess, _current_key, _last_chain_tag, _buf, _next_flush, flush_boundary,
                   _stop_evt, _stop, _thr, loc, report>>
    /\ keepEnv

\* line 181
t_w181(t) ==
    /\ UNCHANGED notSeg
    /\ TBudget(0)
    /\ pc[t] = "w181"
    /\ _last_chain_tag' = loc[t].built.chain_tag
    /\ goto(t, "w184")
    /\ UNCHANGED <<storeVars, sess, _current_key, _prev_tag, _buf, _next_flush, flush_boundary,
                   _stop_evt, _stop, _thr, loc, report>>
    /\ keepEnv

\* line 184: the insert, which returns or raises
t_w184(t) ==
    /\ UNCHANGED notSeg
    /\ pc[t] = "w184"
    /\ \E ok \in BOOLEAN :
          /\ TBudget(Cost(ok))
          /\ LET b == loc[t].built IN insert_segment(ok, b.ts_utc, b.header, b.body, b.meta)
          /\ goto(t, IF ok THEN after_return(t) ELSE after_raise(t))
          /\ _thr' = IF t = "poll" /\ ~ok THEN FALSE ELSE _thr
    /\ loc' = [loc EXCEPT ![t] = no_locals]
    /\ UNCHANGED <<_stop_evt, _stop, report, now, urandom, nrec, nsess, HAVE_PYCRYPTO,
                   hmac_oracle>>
    /\ keepWriter

\* time.time() advances between the threads' steps
t_Tick ==
    /\ UNCHANGED notSeg
    /\ TBudget(1)
    /\ now' = now + 1
    /\ UNCHANGED <<storeVars, writerVars, urandom, nrec, nfail, nsess, HAVE_PYCRYPTO, hmac_oracle, report, threadVars>>

NextThreads ==
    \/ rt_start
    \/ rt_stop
    \/ t_stop
    \/ disp_loop
    \/ t_add_event
    \/ poll_loop
    \/ \E t \in Threads : t_flush(t)
    \/ \E t \in Threads : t_w139(t)
    \/ \E t \in Threads : t_w142(t)
    \/ \E t \in Threads : t_w148(t)
    \/ \E t \in Threads : t_w168(t)
    \/ \E t \in Threads : t_w179(t)
    \/ \E t \in Threads : t_w180(t)
    \/ \E t \in Threads : t_w181(t)
    \/ \E t \in Threads : t_w184(t)
    \/ t_Tick

SpecThreads == Init /\ [][NextThreads]_vars

\* ------------------------------------------------- core/utils/queueing.py
\* queue.Queue.put_nowait(item): Full when qsize() >= maxsize
put_nowait(q, item) ==
    IF Len(q) >= maxsize THEN [raised |-> "Full", q |-> q]
    ELSE [raised |-> "", q |-> Append(q, item)]
\* queue.Queue.get_nowait(): Empty when there is nothing, else the oldest item
get_nowait(q) ==
    IF q = <<>> THEN [raised |-> "Empty", q |-> q]
    ELSE [raised |-> "", q |-> Tail(q)]

\* safe_put as it would be if it dropped the newest queued item instead of the oldest
safe_put_drop_newest(q, item) ==
    LET first == put_nowait(q, item) IN
    IF first.raised = "Full"
    THEN put_nowait(SubSeq(q, 1, Len(q) - 1), item)
    ELSE first

\* safe_put(q, item), run without another thread touching q
safe_put(q, item) ==
    LET first == put_nowait(q, item) IN
    IF first.raised = "Full"
    THEN put_nowait(get_nowait(q).q, item)
    ELSE first

\* a producer (a hook, a watcher, the classifier or the engine) offers an item
q_safe_put ==
    /\ q_nput < MaxPut
    /\ q_nput' = q_nput + 1
    /\ LET r == safe_put(event_queue, q_nput + 1) IN
          /\ r.raised = ""
          /\ event_queue' = r.q
    /\ UNCHANGED <<q_got, notQueue>>

\* runner.py line 71: event_queue.get(timeout=0.5) returns the oldest item
q_get ==
    /\ event_queue # <<>>
    /\ q_got' = Append(q_got, Head(event_queue))
    /\ event_queue' = Tail(event_queue)
    /\ UNCHANGED <<q_nput, notQueue>>

NextQueue ==
    \/ q_safe_put
    \/ q_get

SpecQueue == Init /\ [][NextQueue]_vars

\* ------------------------------- safe_put, producer threads interleaved
\* Each step is one call on the queue.Queue, which is atomic under the queue's
\* own mutex; between two steps of one producer the other threads may run.
notPut == <<segVars, q_nput, q_got, clsVars, engVars, runVars, dispVars, recVars>>

\* a producer calls safe_put(event_queue, item)
sp_call(p) ==
    /\ sp_pc[p] = "idle"
    /\ sp_ncall < MaxCalls
    /\ sp_ncall' = sp_ncall + 1
    /\ sp_item' = [sp_item EXCEPT ![p] = sp_ncall + 1]
    /\ sp_pc' = [sp_pc EXCEPT ![p] = "l11"]
    /\ UNCHANGED <<event_queue, notPut>>

\* line 11: q.put_nowait(item); Full leads to line 14, else safe_put returns
sp_l11(p) ==
    /\ sp_pc[p] = "l11"
    /\ LET r == put_nowait(event_queue, sp_item[p]) IN
          /\ event_queue' = r.q
          /\ sp_pc' = [sp_pc EXCEPT ![p] = IF r.raised = "Full" THEN "l14" ELSE "idle"]
    /\ UNCHANGED <<sp_item, sp_ncall, notPut>>

\* lines 13-16: q.get_nowait(), Empty is passed over
sp_l14(p) ==
    /\ sp_pc[p] = "l14"
    /\ event_queue' = get_nowait(event_queue).q
    /\ sp_pc' = [sp_pc EXCEPT ![p] = "l17"]
    /\ UNCHANGED <<sp_item, sp_ncall, notPut>>

\* line 17: q.put_nowait(item) outside any try: Full leaves safe_put as an exception
sp_l17(p) ==
    /\ sp_pc[p] = "l17"
    /\ LET r == put_nowait(event_queue, sp_item[p]) IN
          /\ event_queue' = r.q
          /\ sp_pc' = [sp_pc EXCEPT ![p] = IF r.raised = "Full" THEN "raised" ELSE "idle"]
    /\ UNCHANGED <<sp_item, sp_ncall, notPut>>

\* runner.py line 71: the consumer takes the oldest item
sp_consume ==
    /\ event_queue # <<>>
    /\ event_queue' = Tail(event_queue)
    /\ UNCHANGED <<putVars, notPut>>

NextPut ==
    \/ \E p \in Producers : sp_call(p)
    \/ \E p \in Producers : sp_l11(p)
    \/ \E p \in Producers : sp_l14(p)
    \/ \E p \in Producers : sp_l17(p)
    \/ sp_consume

SpecPut == Init /\ [][NextPut]_vars

\* ------------------------------------------- the classifier, event by event
notCls == <<segVars, queueVars, putVars, engVars, runVars, dispVars, recVars>>

\* PasteClassifier(config): a fresh classifier, with either setting of
\* primary_hint
PasteClassifier_new ==
    /\ cls_n < MaxEvents
    /\ \E hint \in BOOLEAN :
        /\ primary_hint' = hint
        /\ _last_right_click_mono' = <<>>
        /\ _last_clip_change_mono' = <<>>
        /\ _last_context_emit_mono' = <<>>
    /\ cls_out' = <<>>
    /\ ctx_emits' = <<>>
    /\ cls_n' = cls_n + 1
    /\ UNCHANGED <<clock, notCls>>

\* one call of process(ev); the clock is monotonic, so its reading is at least
\* the last one
cls_process ==
    /\ cls_n < MaxEvents
    /\ \E ev \in RawEvents, t_now \in clock..MaxT :
        LET r == PasteClassifier_process(ev, t_now) IN
        /\ clock' = t_now
        /\ _last_right_click_mono' = r.rc
        /\ _last_clip_change_mono' = r.clip
        /\ _last_context_emit_mono' = r.emit
        /\ cls_out' = r.out
        /\ ctx_emits' = IF \E i \in 1..Len(r.out) : r.out[i].command = "paste_context"
                        THEN Append(ctx_emits, t_now) ELSE ctx_emits
    /\ cls_n' = cls_n + 1
    /\ UNCHANGED <<primary_hint, notCls>>

NextClassifier ==
    \/ PasteClassifier_new
    \/ cls_process

SpecClassifier == Init /\ [][NextClassifier]_vars

\* ----------------------------------------------- the engine, event by event
notEng == <<segVars, queueVars, putVars, clsVars, runVars, dispVars, recVars>>

\* AnomalyEngine(out_q, config): a fresh engine
AnomalyEngine_new ==
    /\ eng_n < MaxEngEvents
    /\ \E t0 \in Times :
        /\ _recent_keys' = <<>>
        /\ _paste_times' = <<>>
        /\ _last_non_idle_t' = t0
        /\ eng_t0' = t0
        /\ _last_event_t' = t0
    /\ _keys_window' = <<>>
    /\ _intervals' = <<>>
    /\ _last_key_down_t' = <<>>
    /\ eng_out' = <<>>
    /\ key_log' = <<>>
    /\ paste_log' = <<>>
    /\ eng_n' = eng_n + 1
    /\ UNCHANGED <<cmd_clock, key_clock, notEng>>

\* the state after process(ev); the logs are kept besides the engine's own
\* deques and never trimmed
eng_step(ev) ==
    LET r == AnomalyEngine_process(ev) IN
    /\ eng_n < MaxEngEvents
    /\ _recent_keys' = r.keys
    /\ _paste_times' = r.times
    /\ _last_non_idle_t' = r.last_t
    /\ _keys_window' = r.metrics.keys_window
    /\ _intervals' = r.metrics.intervals
    /\ _last_key_down_t' = r.metrics.last_key_down_t
    /\ _last_event_t' = r.metrics.last_event_t
    /\ eng_out' = r.out
    /\ key_log' = IF ev.class = "KeyEvent" /\ ev.action = "down"
                  THEN Append(key_log, ev.t_mono) ELSE key_log
    /\ paste_log' = IF ev.class = "CommandEvent" /\ ev.command \in {"paste", "paste_context"}
                    THEN Append(paste_log, ev.t_mono) ELSE paste_log
    /\ eng_n' = eng_n + 1
    /\ UNCHANGED eng_t0

\* the engine reads of a key or mouse event only its class, action and t_mono:
\* one key and one button stand for all
EngineRawEvents ==
    {ev \in KeyEvents : ev.key = "a" /\ ev.mods = {}}
    \cup {ev \in MouseEvents : ev.button = "left" /\ ev.action = "down"}
    \cup ClipboardEvents \cup AnomalyEvents

\* the events that can be dequeued next: the threads that create them are not
\* the one that processes them, so their t_mono come in any order, except
\* that the keyboard listener's one thread stamps and queues its key events
\* one after the other
NextRawEvents ==
    {ev \in EngineRawEvents : ev.class = "KeyEvent" => ev.t_mono >= key_clock}

\* process(ev) for an event of a listener, the clipboard watcher or the engine
\* itself
eng_process ==
    /\ \E ev \in NextRawEvents :
        /\ eng_step(ev)
        /\ key_clock' = IF ev.class = "KeyEvent" THEN ev.t_mono ELSE key_clock
    /\ UNCHANGED <<cmd_clock, notEng>>

\* the command events the dispatcher thread can create next: it creates them
\* one after the other, reading the monotonic clock
NextCommandEvents == {ev \in CommandEvents : ev.t_mono >= cmd_clock}

\* process(ev) for a command event
eng_process_command ==
    /\ \E ev \in NextCommandEvents :
        /\ eng_step(ev)
        /\ cmd_clock' = ev.t_mono
    /\ UNCHANGED <<key_clock, notEng>>

\* the key events the keyboard listener can create next, on a finer clock:
\* typing, event by event
TypedKeys ==
    [class : {"KeyEvent"}, etype : {etype_of("KeyEvent")},
     t_mono : {t \in 0..MaxKeyT : t >= key_clock},
     key : {"a"}, action : {"down", "up"}, mods : {{}}]

\* process(ev) for a typed key
eng_type ==
    /\ \E ev \in TypedKeys :
        /\ eng_step(ev)
        /\ key_clock' = ev.t_mono
    /\ UNCHANGED <<cmd_clock, notEng>>

NextMetrics ==
    \/ AnomalyEngine_new
    \/ eng_type

SpecMetrics == Init /\ [][NextMetrics]_vars

NextEngine ==
    \/ AnomalyEngine_new
    \/ eng_process
    \/ eng_process_command

SpecEngine == Init /\ [][NextEngine]_vars

\* -------------------------------------- the dispatcher, statement by statement
notDisp == <<segVars, queueVars, putVars, clsVars, engVars, runVars, recVars>>

\* lines 68-85 as they would be without lines 78-84, the copy with app set
d_get_unannotated ==
    /\ d_pc = "get"
    /\ ~_stop_evt
    /\ d_n < MaxDispatch
    /\ \E ev \in DequeuedEvents(d_n + 1) :
        /\ d_raw' = ev
        /\ d_ev' = ev
        /\ ctx_app' = IF ev.class = "FocusEvent" THEN ev.app_name ELSE ctx_app
    /\ d_n' = d_n + 1
    /\ d_pc' = "classify"
    /\ UNCHANGED <<got, raised, notDisp>>

\* lines 68-85: an event is taken off the queue; a focus event updates the
\* context, any other event is replaced by a copy with app set from it
d_get ==
    /\ d_pc = "get"
    /\ ~_stop_evt
    /\ d_n < MaxDispatch
    /\ \E ev \in DequeuedEvents(d_n + 1) :
        /\ d_raw' = ev
        /\ IF ev.class = "FocusEvent"
           THEN ctx_app' = ev.app_name /\ d_ev' = ev
           ELSE ctx_app' = ctx_app /\ d_ev' = [ev EXCEPT !.app = ctx_app]
    /\ d_n' = d_n + 1
    /\ d_pc' = "classify"
    /\ UNCHANGED <<got, raised, notDisp>>

\* a component is handed the event inside try/except Exception: it returns
\* or it raises, and the dispatcher goes to the next statement either way
hand_to(c, next_pc) ==
    /\ got' = [got EXCEPT ![c] = Append(@, d_ev)]
    /\ \E raises \in BOOLEAN :
        raised' = IF raises THEN raised \cup {<<c, d_ev.n>>} ELSE raised
    /\ d_pc' = next_pc
    /\ UNCHANGED <<d_ev, d_raw, d_n, ctx_app, notDisp>>

\* lines 87-91 as they would be if the exception left the loop's body
d_classify_unguarded ==
    /\ d_pc = "classify"
    /\ got' = [got EXCEPT !["classifier"] = Append(@, d_ev)]
    /\ \E raises \in BOOLEAN :
        /\ raised' = IF raises THEN raised \cup {<<"classifier", d_ev.n>>} ELSE raised
        /\ d_pc' = IF raises THEN "get" ELSE "anomaly"
    /\ UNCHANGED <<d_ev, d_raw, d_n, ctx_app, notDisp>>

\* lines 87-91: self.classifier.process(ev)
d_classify == d_pc = "classify" /\ hand_to("classifier", "anomaly")
\* lines 93-97: self.anomaly.process(ev)
d_anomaly == d_pc = "anomaly" /\ hand_to("anomaly", "persist")
\* lines 99-102: self.seg_writer.add_event(ev)
d_persist == d_pc = "persist" /\ hand_to("seg_writer", "callback")
\* lines 109-114: count += 1; self._on_event(ev, count)
d_callback == d_pc = "callback" /\ hand_to("on_event", "get")

NextDispatch ==
    \/ d_get
    \/ d_classify
    \/ d_anomaly
    \/ d_persist
    \/ d_callback

SpecDispatch == Init /\ [][NextDispatch]_vars

\* ------------------------------------------------------------------ claims
ratchet == <<_current_key, _prev_tag, _last_chain_tag>>
header_of(row) == json_loads(row.header)
session_at(i) == dict_val(header_of(segments[i]), "session")
suite_at(i) == dict_val(header_of(segments[i]), "suite")
chain_tag_at(i) == fromhex(dict_val(header_of(segments[i]), "chain_tag"))
prev_tag_at(i) == fromhex(dict_val(header_of(segments[i]), "prev_tag"))
Verified == report # <<>>
\* the flush that made the last oracle query was persisted as the last row
LastFlushPersisted ==
    /\ segments # <<>>
    /\ chain_tag_at(Len(segments)) = <<"hmac", Len(hmac_oracle)>>

\* C1: a flush whose append raised leaves (current_key, prev_tag, last_chain_tag)
\* as they were, and within a session the ratchet state changes only in a step
\* that appended a row.
C1_RatchetOnlyAfterPersist ==
    [][ /\ (nfail' > nfail => ratchet' = ratchet)
        /\ (ratchet' # ratchet /\ sess' = sess => Len(segments') = Len(segments) + 1) ]_vars

\* C3: after failure-free sequential flushes the verifier, given the master
\* secret, counts every selected segment as sig, chain and decrypt OK and
\* reports no error, for the whole store and for every --limit prefix.
C3_VerifierAcceptsWriter ==
    Verified /\ nfail = 0 /\ segments # <<>> =>
        LET r == report[1].result
            n == Len(select_rows(segments, report[1].limit))
        IN /\ r.total = n
           /\ r.sig_ok = n
           /\ r.chain_ok = n
           /\ r.decrypt_ok = n
           /\ r.errors = <<>>

C3_Witness ==
    /\ Verified
    /\ nfail = 0
    /\ Len(segments) = 3
    /\ report[1].limit = 2
    /\ report[1].result.total = 2
    /\ session_at(1) = session_at(2)
    /\ session_at(2) # session_at(3)
    /\ suite_at(1) # suite_at(2)

\* C7: the seq values of the rows are 1, 2, 3, ... with no gap, also after
\* appends that raised, and a step never changes or removes an existing row.
C7_SeqDense ==
    /\ [](\A i \in 1..Len(segments) : segments[i].seq = i)
    /\ [][ /\ Len(segments') >= Len(segments)
           /\ SubSeq(segments', 1, Len(segments)) = segments ]_vars

C7_Witness ==
    /\ nfail >= 1
    /\ Len(segments) >= 2
    /\ Len(hmac_oracle) > Len(segments)
    /\ chain_tag_at(1) = <<"hmac", 1>>
    /\ LastFlushPersisted

\* C8: a row whose predecessor in seq order is of the same session carries the
\* first 16 bytes of the predecessor's chain_tag as prev_tag, and the first row
\* of a session carries 16 zero bytes.
C8_PrevTagLinksRows ==
    \A i \in 1..Len(segments) :
        IF i > 1 /\ session_at(i - 1) = session_at(i)
        THEN prev_tag_at(i) = prefix_bytes(chain_tag_at(i - 1), 16)
        ELSE prev_tag_at(i) = zero_bytes(16)

\* a value of header field k other than v
altered_value(k, v) ==
    IF k \in {"ver", "padded_len"} THEN v + 1
    ELSE IF k = "suite" THEN (IF v = SUITE_AES_SIV THEN SUITE_CHACHA20P ELSE SUITE_AES_SIV)
    ELSE IF k = "hkdf_info" THEN <<"segment-key:", "other">>
    ELSE hex(<<"altered", fromhex(v)>>)

\* C9: every stored header's signature verifies under its own sign_pub, and
\* the header with any one other field changed no longer verifies.
C9_SignatureCoversHeader ==
    \A i \in 1..Len(segments) :
        LET h == header_of(segments[i]) IN
        /\ sig_check(h)
        /\ \A j \in 1..Len(h) :
              h[j][1] # "sig" => ~sig_check(dict_set(h, h[j][1], altered_value(h[j][1], h[j][2])))

C9_Witness ==
    /\ Len(segments) >= 2
    /\ suite_at(1) = SUITE_CHACHA20P
    /\ suite_at(2) = SUITE_AES_SIV
    /\ dict_has(header_of(segments[1]), "nonce")
    /\ ~dict_has(header_of(segments[2]), "nonce")

\* ---- what an attacker with write access to the database file can do to it
\* one byte of block j of row k's body flipped
alter_body(db, k, j) == [db EXCEPT ![k].body = [@ EXCEPT ![j] = <<"flipped", @>>]]
\* the rows with seq in gone deleted
remove_rows(db, gone) == SelectSeq(db, LAMBDA row : row.seq \notin gone)
\* the (header, body) of rows i and j exchanged
swap_rows(db, i, j) ==
    [db EXCEPT ![i].header = db[j].header, ![i].body = db[j].body,
               ![j].header = db[i].header, ![j].body = db[i].body]
names_row(errors, seq) == \E e \in 1..Len(errors) : errors[e][1] = seq
has_chain_error(errors) == \E e \in 1..Len(errors) : errors[e][2] = "chain"
\* the full check: master secret present, decrypt enabled, no --limit
full_check(db, have) == verify_db(db, master_key, 0, FALSE, have)

\* C4: with the body of one row altered, the verifier reports chain_ok < total
\* and decrypt_ok < total and an error that names the row.
C4_AlteredBodyDetected ==
    \A k \in 1..Len(segments), have \in BOOLEAN :
        \A j \in 1..Len(segments[k].body) :
            LET r == full_check(alter_body(segments, k, j), have) IN
            /\ r.chain_ok < r.total
            /\ r.decrypt_ok < r.total
            /\ names_row(r.errors, k)

\* C5: with one or more rows removed from a store the writer wrote, the
\* verifier reports at least one error.
C5_RemovedRowsDetected ==
    nfail = 0 =>
        \A gone \in SUBSET (1..Len(segments)), have \in BOOLEAN :
            gone # {} => full_check(remove_rows(segments, gone), have).errors # <<>>

\* C6: with the contents of two rows of one session exchanged, the verifier
\* reports at least one chain error.
C6_SwappedRowsDetected ==
    \A i, j \in 1..Len(segments), have \in BOOLEAN :
        i < j /\ session_at(i) = session_at(j) =>
            has_chain_error(full_check(swap_rows(segments, i, j), have).errors)

C6_Witness ==
    /\ nfail = 0
    /\ Len(segments) = 3
    /\ session_at(1) = session_at(3)
    /\ full_check(segments, TRUE).errors = <<>>
    /\ has_chain_error(full_check(swap_rows(segments, 1, 3), TRUE).errors)

\* the positions of a thread inside _write_segment
Writing == {"w139", "w142", "w148", "w168", "w179", "w180", "w181", "w184"}
\* the ratchet state a row was derived from: the HKDF input key and salt of its
\* segment key, and the last block of its chain tag's HMAC input
derived_from(row) ==
    LET seg_key == row.body[1][2]
        query == hmac_oracle[fromhex(dict_val(header_of(row), "chain_tag"))[2]][2]
    IN <<seg_key[2], seg_key[4], query[Len(query)]>>
\* no two rows of a session were derived from the same ratchet state
C2_NoTwoFromSameRatchet ==
    \A i, j \in 1..Len(segments) :
        i < j /\ session_at(i) = session_at(j) =>
            derived_from(segments[i]) # derived_from(segments[j])
\* C2: at most one thread is inside _write_segment at any time, and no two rows
\* of a session were derived from the same (current_key, prev_tag,
\* last_chain_tag).
C2_OneSegmentInFlight ==
    /\ Cardinality({t \in Threads : pc[t] \in Writing}) <= 1
    /\ C2_NoTwoFromSameRatchet

\* the items of q are in the order they were put
RECURSIVE increasing(_)
increasing(q) == Len(q) < 2 \/ (q[1] < q[2] /\ increasing(Tail(q)))
\* C10: safe_put on a full queue removes exactly the oldest item and appends
\* the new one at the tail, on a queue with room it only appends; the queue
\* never holds more than maxsize items, and the items leave it in the order
\* they were put.
C10_DropOldestFifo ==
    /\ [](Len(event_queue) <= maxsize)
    /\ [](increasing(q_got \o event_queue))
    /\ [][ q_nput' = q_nput + 1 =>
             IF Len(event_queue) = maxsize
             THEN event_queue' = Tail(event_queue) \o <<q_nput'>>
             ELSE event_queue' = Append(event_queue, q_nput') ]_vars
    /\ [][ q_got' # q_got =>
             /\ q_got' = Append(q_got, Head(event_queue))
             /\ event_queue' = Tail(event_queue) ]_vars

C10_Witness ==
    /\ Len(event_queue) = maxsize
    /\ q_nput > maxsize + 1
    /\ event_queue[1] > 2
    /\ event_queue[maxsize] = q_nput
    /\ q_got = <<1>>

\* C11: with several producers inside safe_put at once and the consumer
\* polling, no call of safe_put ends with an exception.
C11_SafePutNeverRaises ==
    \A p \in Producers : sp_pc[p] # "raised"

\* the records a row holds, in the order they were serialized (the plaintext
\* inside the body)
records_of(row) == row.body[1][4][2]
persisted == UNION {{records_of(segments[i])[k] : k \in 1..Len(records_of(segments[i]))} :
                    i \in 1..Len(segments)}
\* the records the dispatcher has passed to add_event
added == IF pc["disp"] = "add" THEN 1..(nrec - 1) ELSE 1..nrec

\* C12: when SegmentWriter.stop() returns and no append has failed, the buffer
\* is empty and every record passed to add_event so far is in a persisted
\* segment.
C12_StopLeavesNothingBuffered ==
    [][ (pc["main"] # "done" /\ pc'["main"] = "done" /\ nfail' = 0) =>
            /\ _buf' = <<>>
            /\ added' \subseteq persisted' ]_vars

\* C13: the records of every persisted segment are in the order in which the
\* dispatcher dequeued the events and passed them to add_event.
C13_BatchKeepsOrder ==
    \A i \in 1..Len(segments) : increasing(records_of(segments[i]))

C13_Witness ==
    /\ pc["poll"] # "idle"
    /\ \E i \in 1..Len(segments) : Len(records_of(segments[i])) >= 2

\* a step is add_event's check, or the poller's check
is_add_check == nrec' = nrec + 1
is_poll_check ==
    /\ _thr /\ ~_stop /\ ~_stop'
    /\ nrec' = nrec /\ now' = now /\ nsess' = nsess
\* the step ran _write_segment
wrote_segment == Len(segments') > Len(segments) \/ nfail' > nfail
\* count records are buffered and the count or the time since boundary calls for a flush
flush_due(count, boundary) == count >= max_events \/ now >= boundary + flush_sec
last_flush == flush_boundary.flushed
last_flush_or_empty ==
    IF flush_boundary.empty > flush_boundary.flushed
    THEN flush_boundary.empty ELSE flush_boundary.flushed

\* C14 as stated: at every non-forced check on a non-empty buffer a segment is
\* written exactly when the buffered count has reached max_events or
\* flush_sec has passed since the writer was constructed or last flushed
\* (a batch swapped out, or a forced or due check that found nothing to flush).
C14_FlushWhenDueSinceLastFlush ==
    [][ /\ is_add_check => (wrote_segment <=> flush_due(Len(_buf) + 1, last_flush))
        /\ is_poll_check /\ _buf # <<>> =>
              (wrote_segment <=> flush_due(Len(_buf), last_flush)) ]_vars

\* C14 (amended): at every non-forced check on a non-empty buffer a segment is
\* written exactly when the buffered count has reached max_events or
\* flush_sec has passed since the latest of the writer's construction, its
\* last flush and the last check that found the buffer empty.
C14_FlushWhenDue ==
    [][ /\ is_add_check => (wrote_segment <=> flush_due(Len(_buf) + 1, last_flush_or_empty))
        /\ is_poll_check /\ _buf # <<>> =>
              (wrote_segment <=> flush_due(Len(_buf), last_flush_or_empty)) ]_vars

C14_Witness ==
    /\ _thr /\ ~_stop
    /\ segments # <<>>
    /\ _buf # <<>>
    /\ Len(_buf) < max_events
    /\ flush_boundary.empty > flush_boundary.flushed
    /\ now >= last_flush + flush_sec
    /\ now < _next_flush

\* ---- paste classification
\* the commands process is to emit for a key or mouse event
hotkey_of(k) ==
    CASE k = "c" -> "copy" [] k = "x" -> "cut" [] k = "v" -> "paste"
expected_cmds(ev) ==
    IF /\ ev.class = "KeyEvent" /\ ev.action = "down"
       /\ ev.mods \cap {"ctrl", "cmd"} # {}
       /\ lower(ev.key) \in {"c", "x", "v"}
    THEN <<[command |-> hotkey_of(lower(ev.key)), source |-> "hotkey"]>>
    ELSE IF /\ ev.class = "MouseEvent" /\ ev.button = "middle"
            /\ ev.action = "down" /\ primary_hint
    THEN <<[command |-> "paste_primary_possible", source |-> "primary"]>>
    ELSE <<>>

\* C15: for every key or mouse event, in every state the classifier can be in
\* and at every clock reading, process emits exactly one copy/cut/paste with
\* source hotkey for a key-down with ctrl or cmd whose lower-cased key is
\* c/x/v, exactly one paste_primary_possible with source primary for a
\* middle-button down when primary_hint is enabled, and nothing otherwise.
C15_HotkeyAndPrimaryCommands ==
    \A ev \in KeyEvents \cup MouseEvents : \A t_now \in clock..MaxT :
        PasteClassifier_process(ev, t_now).out = expected_cmds(ev)

\* both settings of primary_hint have been used, a right click is remembered,
\* and the last call emitted a hotkey command
C15_Witness ==
    /\ ~primary_hint
    /\ _last_right_click_mono # <<>>
    /\ Len(cls_out) = 1 /\ cls_out[1].source = "hotkey"

abs(x) == IF x < 0 THEN 0 - x ELSE x
\* the recorded right click is within the window of the clipboard event
right_click_near(ev) ==
    /\ _last_right_click_mono # <<>>
    /\ abs(ev.t_mono - _last_right_click_mono[1]) <= context_window_sec
cooldown_elapsed(t_now) ==
    \/ _last_context_emit_mono = <<>>
    \/ t_now - _last_context_emit_mono[1] >= context_cooldown_sec
paste_contexts(out) == {i \in 1..Len(out) : out[i].command = "paste_context"}

\* C16: on a clipboard-change event, process emits exactly one paste_context
\* with source context if the recorded right click's t_mono differs from the
\* event's by at most context_window_sec and the cooldown has elapsed, and no
\* paste_context if no right click is recorded or it is further away than
\* context_window_sec.
C16_ContextWithinWindow ==
    \A ev \in ClipboardEvents : \A t_now \in clock..MaxT :
        LET out == PasteClassifier_process(ev, t_now).out IN
        /\ right_click_near(ev) /\ cooldown_elapsed(t_now)
              => out = <<[command |-> "paste_context", source |-> "context"]>>
        /\ ~right_click_near(ev) => paste_contexts(out) = {}

\* C17: any two paste_context emissions of one classifier are at least
\* context_cooldown_sec apart on the classifier's clock, whatever the clock's
\* non-decreasing readings from 0 on and whatever the burst of clipboard
\* changes after a right click.
C17_CooldownBetweenEmissions ==
    \A i, j \in 1..Len(ctx_emits) :
        i < j => ctx_emits[j] - ctx_emits[i] >= context_cooldown_sec

\* ---- anomaly rules
\* the t_mono of the most recent key-down processed, or the clock reading at
\* construction when there is none
last_key_down_t == IF key_log = <<>> THEN eng_t0 ELSE key_log[Len(key_log)]
with_rule(out, rule) == {i \in 1..Len(out) : out[i].rule_id = rule}
EngineEvents == NextRawEvents \cup NextCommandEvents

\* C18: on a clipboard-change event the engine emits exactly one idle_to_burst
\* anomaly, of severity high and with features.clip_len = length, if and only
\* if length >= burst_min_len and t_mono - last_non_idle_t >= idle_threshold_s,
\* last_non_idle_t being the t_mono of the most recent key-down processed (the
\* construction-time reading when there is none); key-up, mouse and command
\* events do not advance last_non_idle_t.
C18_IdleToBurst ==
    /\ _last_non_idle_t = last_key_down_t
    /\ \A ev \in ClipboardEvents :
        LET out == AnomalyEngine_process(ev).out
            idle == with_rule(out, "idle_to_burst")
        IN IF /\ ev.length >= burst_min_len
              /\ ev.t_mono - last_key_down_t >= idle_threshold_s
           THEN /\ Cardinality(idle) = 1
                /\ \A i \in idle : /\ out[i].severity = "high"
                                   /\ out[i].features.clip_len = ev.length
           ELSE idle = {}
    /\ \A ev \in EngineEvents :
        ~(ev.class = "KeyEvent" /\ ev.action = "down")
            => AnomalyEngine_process(ev).last_t = _last_non_idle_t

\* a key-down was processed, then a key-up or other event at a later t_mono,
\* and the clipboard change just processed raised idle_to_burst
C18_Witness ==
    /\ key_log # <<>>
    /\ with_rule(eng_out, "idle_to_burst") # {}
    /\ eng_n = MaxEngEvents

\* the key-downs processed so far with t_mono >= t - keys_window_s
keys_in_window(t) ==
    Cardinality({i \in 1..Len(key_log) : key_log[i] >= t - keys_window_s})

\* C19: on a clipboard-change event the engine emits exactly one
\* text_injection anomaly, of severity high, if and only if
\* length >= text_insertion_min and the number k of key-downs processed with
\* t_mono >= now - keys_window_s is <= keys_small_max; the anomaly carries
\* features.keys_recent = k and features.clip_len = length.
C19_TextInjection ==
    \A ev \in ClipboardEvents :
        LET out == AnomalyEngine_process(ev).out
            inj == with_rule(out, "text_injection")
            k == keys_in_window(ev.t_mono)
        IN IF ev.length >= text_insertion_min /\ k <= keys_small_max
           THEN /\ Cardinality(inj) = 1
                /\ \A i \in inj : /\ out[i].severity = "high"
                                  /\ out[i].features.keys_recent = k
                                  /\ out[i].features.clip_len = ev.length
           ELSE inj = {}

\* the pastes processed so far with t_mono >= t - paste_window_s
pastes_in_window(t) ==
    Cardinality({i \in 1..Len(paste_log) : paste_log[i] >= t - paste_window_s})
is_paste(ev) ==
    ev.class = "CommandEvent" /\ ev.command \in {"paste", "paste_context"}

\* C20: on every paste or paste_context command event the engine emits
\* exactly one multi_paste_streak anomaly, of severity medium, if and only if
\* the number c of paste/paste_context commands processed with
\* t_mono >= now - paste_window_s, this one included, is >= paste_streak_n,
\* with features.count = c, and every further paste in the window emits
\* another; copy, cut, paste_primary_possible and anomaly events neither
\* count toward the streak nor trigger it.
C20_MultiPasteStreak ==
    \A ev \in EngineEvents :
        LET r == AnomalyEngine_process(ev)
            streak == with_rule(r.out, "multi_paste_streak")
            c == pastes_in_window(ev.t_mono) + 1
        IN IF is_paste(ev)
           THEN IF c >= paste_streak_n
                THEN /\ Cardinality(streak) = 1
                     /\ \A i \in streak : /\ r.out[i].severity = "medium"
                                          /\ r.out[i].features.count = c
                ELSE streak = {}
           ELSE streak = {} /\ r.times = _paste_times

\* more than paste_streak_n pastes were processed, the oldest has left the
\* window, and the last one raised the anomaly with count = paste_streak_n
C20_Witness ==
    /\ Len(paste_log) > paste_streak_n
    /\ \E i \in with_rule(eng_out, "multi_paste_streak") :
           eng_out[i].features.count = paste_streak_n
    /\ Len(_paste_times) < Len(paste_log)

\* every time the deque q retains is inside the window of width w ending at t
all_in_window(q, t, w) == \A i \in 1..Len(q) : q[i] >= t - w

\* C21: after process(ev) returns, for an event of any type, every time
\* retained in _recent_keys is >= ev.t_mono - keys_window_s and every time
\* retained in _paste_times is >= ev.t_mono - paste_window_s.
C21_WindowsPruned ==
    \A ev \in EngineEvents :
        LET r == AnomalyEngine_process(ev) IN
        /\ all_in_window(r.keys, ev.t_mono, keys_window_s)
        /\ all_in_window(r.times, ev.t_mono, paste_window_s)

\* ---- the verifier's walk
\* row k's header replaced by bytes that are no JSON document
garble_header(db, k) == [db EXCEPT ![k].header = <<"garbage">>]
\* row k's header with another signature in it
break_sig(db, k) ==
    [db EXCEPT ![k].header = <<@[1], @[2], dict_set(@[3], "sig", hex(zero_bytes(64)))>>]
\* the store as the writer left it, and with one row damaged in its body or
\* in its signature
damaged_rows(db) ==
    {db} \cup {alter_body(db, k, 1) : k \in 1..Len(db)}
         \cup {break_sig(db, k) : k \in 1..Len(db)}
\* the same, and with one row's header unparsable
damaged(db) == damaged_rows(db) \cup {garble_header(db, k) : k \in 1..Len(db)}
count_of(list, seq, kind) ==
    Cardinality({i \in 1..Len(list) : list[i] = <<seq, kind>>})
count_kind(list, kind) ==
    Cardinality({i \in 1..Len(list) : list[i][2] = kind})
\* the walk of db went over every row, entered on each the checks the
\* options call for, and recorded one error for each check that did not pass
full_walk(db, master, no_decrypt, have) ==
    LET r == verify_db(db, master, 0, no_decrypt, have) IN
    /\ r.total = Len(db)
    /\ \A k \in 1..Len(db) :
        /\ count_of(r.attempted, db[k].seq, "signature") = 1
        /\ count_of(r.attempted, db[k].seq, "chain")
               = IF key_loaded(master) THEN 1 ELSE 0
        /\ count_of(r.attempted, db[k].seq, "decrypt")
               = IF key_loaded(master) /\ ~no_decrypt THEN 1 ELSE 0
    /\ count_kind(r.errors, "signature") + r.sig_ok = count_kind(r.attempted, "signature")
    /\ count_kind(r.errors, "chain") + r.chain_ok = count_kind(r.attempted, "chain")
    /\ count_kind(r.errors, "decrypt") + r.decrypt_ok = count_kind(r.attempted, "decrypt")

\* C22: for every segment row the verifier attempts the signature check, the
\* chain check (master present) and the decrypt check (master present,
\* decrypt not disabled) whether or not an earlier check on the row failed,
\* records one error per failed check, and goes on with the next row; no
\* failure on a row, an unparsable header included, aborts the walk or skips
\* the row's remaining checks.
C22_AllChecksAttempted ==
    \A db \in damaged(segments), master \in {master_key, no_key} :
        \A no_decrypt \in BOOLEAN, have \in BOOLEAN :
            full_walk(db, master, no_decrypt, have)

\* no signature, chain or decrypt check of the run failed
no_check_failed(r) ==
    \A i \in 1..Len(r.errors) : r.errors[i][2] \notin {"signature", "chain", "decrypt"}

\* C23: the verify command exits with status 0 if and only if every
\* signature, chain and decrypt check it performed passed on every segment
\* walked, and with status 2 if and only if at least one check failed.
C23_ExitStatus ==
    \A db \in damaged_rows(segments), master \in {master_key, no_key, no_file} :
        \A limit \in 0..Len(db), no_decrypt \in BOOLEAN, have \in BOOLEAN :
            LET r == verify_db(db, master, limit, no_decrypt, have) IN
            /\ exit_status(r) = 0 <=> no_check_failed(r)
            /\ exit_status(r) = 2 <=> ~no_check_failed(r)

\* ---- failures during a flush
\* C24: after a store append failure during a flush, triggered from add_event
\* or from the poller thread, the writer keeps operating: the poller keeps
\* checking, so a step in which an append fails leaves a running poller
\* running.
C24_PollerSurvivesAppendFailure ==
    [][ nfail' > nfail /\ _thr /\ ~_stop => _thr' ]_vars

\* C25: if encryption, HMAC computation or signing fails during a flush, the
\* failed flush does not advance the ratchet state, and capture shuts down:
\* from then on the running process hands no further event to the writer and
\* persists no further segment.
C25_CryptoFailureStopsCapture ==
    [][ /\ (crypto_failed' # crypto_failed => ratchet' = ratchet)
        /\ (crypto_failed = nsess /\ nsess' = nsess
               => nrec' = nrec /\ segments' = segments) ]_vars

\* ---- the dispatcher
\* the components the dispatcher has already passed for the event in hand
passed ==
    CASE d_pc = "get" -> Components
      [] d_pc = "classify" -> {}
      [] d_pc = "anomaly" -> {"classifier"}
      [] d_pc = "persist" -> {"classifier", "anomaly"}
      [] d_pc = "callback" -> {"classifier", "anomaly", "seg_writer"}

notRec == <<segVars, queueVars, putVars, clsVars, engVars, runVars, dispVars>>

\* ClipboardWatcher(out_q, enable_session_digest=...): a fresh watcher
ClipboardWatcher_new ==
    /\ \E enable \in BOOLEAN : enable_session_digest' = enable
    /\ _last_sig' = <<>>
    /\ _interval' = poll_sec
    /\ _unchanged_ticks' = 0
    /\ UNCHANGED <<clk, cur, last_rec, notRec>>

\* the watcher's fields
watcher ==
    [sig |-> _last_sig, interval |-> _interval, ticks |-> _unchanged_ticks,
     enable |-> enable_session_digest]
\* one turn of ClipboardWatcher._loop in which read_clipboard returns txt
ClipboardWatcher_loop ==
    /\ \E txt \in Texts \cup {no_text} :
         LET r == ClipboardWatcher_turn(watcher, txt, clk) IN
         /\ r.ticks <= MaxTicks
         /\ _last_sig' = r.sig
         /\ _interval' = r.interval
         /\ _unchanged_ticks' = r.ticks
         /\ cur' = IF r.emit = <<>> THEN cur
                   ELSE [txt |-> txt, en |-> enable_session_digest, ev |-> r.emit[1]]
    /\ UNCHANGED <<enable_session_digest, clk, last_rec, notRec>>

\* a hook, the classifier, the focus tracker or the engine constructs an event
other_event ==
    /\ \E ev \in OtherEvents(clk) : cur' = [txt |-> no_text, en |-> TRUE, ev |-> ev]
    /\ UNCHANGED <<enable_session_digest, _last_sig, _interval, _unchanged_ticks, clk, last_rec, notRec>>

\* SegmentWriter.add_event line 108: rec = ev.to_record()
serialise ==
    /\ cur.ev # no_ev
    /\ last_rec' = cur @@ [rec |-> to_record(cur.ev, clk)]
    /\ UNCHANGED <<enable_session_digest, _last_sig, _interval, _unchanged_ticks, clk, cur, notRec>>

\* time passes
clk_tick ==
    /\ clk < MaxT
    /\ clk' = clk + 1
    /\ UNCHANGED <<enable_session_digest, _last_sig, _interval, _unchanged_ticks, cur, last_rec, notRec>>

NextRecord ==
    \/ ClipboardWatcher_new
    \/ ClipboardWatcher_loop
    \/ other_event
    \/ serialise
    \/ clk_tick

SpecRecord == Init /\ [][NextRecord]_vars

\* ---- stop, called again
\* C27: stop is idempotent: a second stop after a completed stop persists no
\* additional segment, so at the moment SegmentWriter.stop returns the test
\* at the head of the second stop's forced flush finds nothing to write.
C27_SecondStopWritesNothing ==
    [][ pc["main"] # "done" /\ pc'["main"] = "done"
          => flush_not_needed(_buf', TRUE) ]_vars

\* ---- records
\* C28: serialisation is deterministic: an event with the same field values as
\* the one serialised last, serialised now, gives the record made then.
C28_SerialisationDeterministic ==
    last_rec.ev # no_ev /\ cur.ev = last_rec.ev
        => to_record(cur.ev, clk) = last_rec.rec

\* the name each variant is to be written under
variant_name(class) ==
    CASE class = "KeyEvent" -> "KEY"
      [] class = "MouseEvent" -> "MOUSE"
      [] class = "ClipboardEvent" -> "CLIPBOARD"
      [] class = "CommandEvent" -> "COMMAND"
      [] class = "FocusEvent" -> "FOCUS"
      [] class = "AnomalyEvent" -> "ANOMALY"
\* C29: the etype written in a record names the event's variant, ANOMALY for
\* an anomaly event, so an anomaly's record and a command's record never
\* carry the same etype.
C29_EtypeNamesVariant ==
    last_rec.ev # no_ev =>
        /\ last_rec.rec.etype = variant_name(last_rec.ev.class)
        /\ cur.ev # no_ev /\ cur.ev.class # last_rec.ev.class
             => to_record(cur.ev, clk).etype # last_rec.rec.etype

is_clip(e) == e.ev # no_ev /\ e.ev.class = "ClipboardEvent"
\* two texts one watcher cannot tell apart by length and session-salted digest
same_length_and_digest(a, b) ==
    /\ Len(a) = Len(b)
    /\ blake3_hexdigest(session_salt, encode(a)) = blake3_hexdigest(session_salt, encode(b))
unstamped(ev) == [ev EXCEPT !.t_mono = 0]
\* C30: a clipboard event and its record depend on the text only through its
\* length and session-salted digest: the record has exactly the eight fields
\* etype, t_utc, t_mono, app, action, length, kind, session_digest, and events
\* one watcher setting makes from two texts of the same length and digest
\* have the same fields, and the same record when made and serialised at the
\* same times.
C30_ClipboardMetadataOnly ==
    is_clip(last_rec) =>
        /\ DOMAIN last_rec.rec = {"etype", "t_utc", "t_mono", "app", "action",
                                  "length", "kind", "session_digest"}
        /\ last_rec.rec.length = Len(last_rec.txt)
        /\ is_clip(cur) /\ cur.en = last_rec.en
             /\ same_length_and_digest(cur.txt, last_rec.txt)
             => /\ unstamped(cur.ev) = unstamped(last_rec.ev)
                /\ cur.ev.t_mono = last_rec.ev.t_mono
                     => to_record(cur.ev, clk) = to_record(last_rec.ev, clk)
C30_Witness ==
    /\ is_clip(last_rec) /\ is_clip(cur)
    /\ cur.en /\ last_rec.en
    /\ cur.txt # last_rec.txt
    /\ same_length_and_digest(cur.txt, last_rec.txt)
    /\ last_rec.rec.session_digest # <<"None">>
    /\ cur.ev.t_mono > last_rec.ev.t_mono

\* ---- the clipboard watcher's backoff
\* C31: a failed clipboard read is treated as an unchanged poll: the turn emits
\* no event, leaves the last-seen signature as it was, and counts toward the
\* backoff, leaving the tick count and the interval (never above 1.0 s) as a
\* turn that reads an unchanged text leaves them.
C31_FailedReadBacksOff ==
    \A u \in Texts :
        sig_of(u, enable_session_digest) = _last_sig =>
            LET failed == ClipboardWatcher_turn(watcher, no_text, clk)
                same == ClipboardWatcher_turn(watcher, u, clk)
            IN  /\ failed.emit = <<>>
                /\ failed.sig = _last_sig
                /\ failed.ticks = same.ticks
                /\ failed.interval = same.interval
                /\ failed.interval <= _max_interval

\* ---- typing metrics
\* every event the engine can be handed next, typed keys included
MetricsEvents == TypedKeys \cup EngineEvents
\* the square of the coefficient of variation of the intervals' dt, from the
\* deviations: sum (n d - S)^2 / ((n - 1) S^2)
RECURSIVE sum_dev_sq(_, _, _)
sum_dev_sq(intervals, n, S) ==
    IF intervals = <<>> THEN 0
    ELSE (n * intervals[1][2] - S) * (n * intervals[1][2] - S)
         + sum_dev_sq(Tail(intervals), n, S)
uniform(intervals) ==
    LET n == Len(intervals)
        S == sum_dt(intervals)
    IN  10000 * sum_dev_sq(intervals, n, S)
            <= uniform_cv_threshold * uniform_cv_threshold * (n - 1) * S * S
\* C32: a timing_uniformity anomaly, of severity medium, is emitted only for a
\* key event and only when the retained intervals number at least
\* min_interkey_samples and their coefficient of variation is at most
\* uniform_cv_threshold; exactly one is emitted for every key event, down or
\* up, at which both hold, and none with fewer than 2 retained intervals.
C32_TimingUniformity ==
    \A ev \in MetricsEvents :
        LET r == AnomalyEngine_process(ev)
            kept == r.metrics.intervals
            hits == with_rule(r.out, "timing_uniformity")
            due == /\ ev.class = "KeyEvent"
                   /\ Len(kept) >= 2
                   /\ Len(kept) >= min_interkey_samples
                   /\ uniform(kept)
        IN  /\ Cardinality(hits) = IF due THEN 1 ELSE 0
            /\ \A i \in hits : r.out[i].severity = "medium"
C32_Witness ==
    /\ with_rule(eng_out, "timing_uniformity") # {}
    /\ Len(_intervals) >= min_interkey_samples

\* C33: the tracker records an interval only on a key-down that follows an
\* earlier key-down by a strictly positive time, a key-up records nothing,
\* and after observe_key(ev) every retained interval has dt > 0 and ends no
\* earlier than ev.t_mono - entropy_window_s and every retained key-down is
\* no earlier than ev.t_mono - max(wpm_window_s, cpm_window_s).
C33_IntervalsAndWindows ==
    \A ev \in {e \in MetricsEvents : e.class = "KeyEvent"} :
        LET m == MetricsTracker_observe_key(metrics, ev)
            t == ev.t_mono
            n == Len(key_log)
            widest == IF wpm_window_s >= cpm_window_s THEN wpm_window_s ELSE cpm_window_s
        IN  /\ \A i \in 1..Len(m.intervals) :
                 /\ m.intervals[i][2] > 0
                 /\ m.intervals[i][1] >= t - entropy_window_s
                 /\ \/ \E j \in 1..Len(_intervals) : m.intervals[i] = _intervals[j]
                    \/ /\ ev.action = "down"
                       /\ n > 0
                       /\ t - key_log[n] > 0
                       /\ m.intervals[i] = <<t, t - key_log[n]>>
            /\ \A i \in 1..Len(m.keys_window) :
                 /\ m.keys_window[i][1] >= t - widest
                 /\ \/ \E j \in 1..Len(_keys_window) : m.keys_window[i] = _keys_window[j]
                    \/ ev.action = "down" /\ m.keys_window[i] = <<t, ev.key>>
            /\ Len(m.intervals) <= Len(_intervals) + 1
C33_Witness ==
    /\ Len(key_log) >= 3
    /\ key_log[2] > key_log[1]
    /\ _intervals # <<>>
    /\ _intervals[1][1] > key_log[2]
    /\ Len(_keys_window) < Len(key_log)

\* ---- associated data
\* the associated data a stored body was encrypted under
enc_aad(row) ==
    IF dict_val(header_of(row), "suite") = SUITE_AES_SIV
    THEN row.body[2][3]
    ELSE row.body[1][5]
\* the data the writer took the HMAC of to get the stored chain tag
chain_data(row) == hmac_oracle[fromhex(dict_val(header_of(row), "chain_tag"))[2]][2]
keys_of(d) == [i \in 1..Len(d) |-> d[i][1]]
\* C34: for every persisted segment the associated data the verifier rebuilds
\* from the stored header is the associated data the writer encrypted under
\* and fed first to the chain HMAC: the fields ver, suite, session,
\* padded_len, hkdf_info, prev_tag, sign_pub in that order, without nonce,
\* chain_tag and sig.
C34_SameAssociatedData ==
    \A i \in 1..Len(segments) :
        LET row == segments[i]
            aad == aad_from_header_stem(header_of(row))
        IN  /\ aad = enc_aad(row)
            /\ aad = chain_data(row)[1]
            /\ keys_of(json_loads(aad)) =
                 <<"ver", "suite", "session", "padded_len", "hkdf_info", "prev_tag", "sign_pub">>
            /\ aad[2] = "compact"
C34_Witness ==
    \E i, j \in 1..Len(segments) :
        /\ dict_val(header_of(segments[i]), "suite") = SUITE_AES_SIV
        /\ dict_val(header_of(segments[j]), "suite") = SUITE_CHACHA20P
        /\ dict_has(header_of(segments[j]), "nonce")
        /\ dict_has(header_of(segments[j]), "sig")

\* ---- suites
\* the key a stored body was encrypted under
enc_key(row) == row.body[1][2]
suite_fields_agree(row) ==
    LET h == header_of(row)
        suite == dict_val(h, "suite")
    IN  /\ suite \in {"CHACHA20P", "AES_SIV"}
        /\ dict_val(h, "hkdf_info") = <<"segment-key:", suite>>
        /\ dict_has(h, "nonce") <=> suite = "CHACHA20P"
        /\ enc_key(row)[1] = "hkdf"
        /\ enc_key(row)[3] = 64 <=> suite = "AES_SIV"
        /\ enc_key(row)[3] = 32 <=> suite = "CHACHA20P"
\* C35: the suite chosen at a flush is AES_SIV only when the AES_SIV
\* implementation is available and CHACHA20P otherwise; every persisted
\* header has suite CHACHA20P or AES_SIV, hkdf_info 'segment-key:' followed
\* by the suite id, a nonce exactly when the suite is CHACHA20P, and was
\* encrypted under a key of 64 bytes exactly when it is AES_SIV, 32 otherwise.
C35_SuiteAndHeader ==
    \A i \in 1..Len(segments) :
        LET suite == dict_val(header_of(segments[i]), "suite") IN
        /\ suite_fields_agree(segments[i])
        /\ suite = "AES_SIV" => HAVE_PYCRYPTO
        /\ ~HAVE_PYCRYPTO => suite = "CHACHA20P"
C35_Witness ==
    /\ HAVE_PYCRYPTO
    /\ \E i, j \in 1..Len(segments) :
        /\ i < j
        /\ dict_val(header_of(segments[i]), "suite") = "AES_SIV"
        /\ enc_key(segments[i])[3] = 64
        /\ dict_val(header_of(segments[j]), "suite") = "CHACHA20P"
        /\ enc_key(segments[j])[3] = 32

\* ---- annotation
\* the events dequeued so far, as the components see them, in order
seen == got["classifier"] \o (IF d_pc = "classify" THEN <<d_ev>> ELSE <<>>)
\* the app_name of the last focus event among the first i - 1 events
focused_before(i) ==
    LET F == {j \in 1..(i - 1) : seen[j].class = "FocusEvent"} IN
    IF F = {} THEN "unknown"
    ELSE seen[CHOOSE j \in F : \A k \in F : k <= j].app_name
\* C36: every non-focus event handed to the classifier, the engine and the
\* segment writer carries as app the app_name of the most recent focus event
\* dequeued before it, 'unknown' if there was none, and is otherwise the event
\* that came off the queue, t_mono included; a focus event has updated the
\* context before any later event is annotated.
C36_EventsCarryFocusedApp ==
    /\ Len(seen) = d_n
    /\ \A c \in {"classifier", "anomaly", "seg_writer"} :
         \A i \in 1..Len(got[c]) :
            /\ got[c][i] = seen[i]
            /\ seen[i].class # "FocusEvent" => seen[i].app = focused_before(i)
            /\ seen[i].t_mono = i
            /\ [seen[i] EXCEPT !.app = "None"] \in DequeuedEvents(i)
    /\ d_n > 0 =>
         /\ d_ev = IF d_raw.class = "FocusEvent" THEN d_raw
                   ELSE [d_raw EXCEPT !.app = focused_before(d_n)]
         /\ d_ev = seen[d_n]
    /\ ctx_app = focused_before(d_n + 1)
C36_Witness ==
    /\ d_n = 2
    /\ Len(got["seg_writer"]) = 2
    /\ got["seg_writer"][1].class = "FocusEvent"
    /\ got["seg_writer"][1].app_name = "editor"
    /\ got["seg_writer"][2].class = "KeyEvent"
    /\ got["seg_writer"][2].app = "editor"
    /\ got["anomaly"][2].app = "editor"

\* ---- the verifier's ratchet
\* the verifier's per-session states after it has walked the first k rows
states_after(db, k, have) ==
    IF k = 0 THEN <<>> ELSE verify_db(db, master_key, k, FALSE, have).session_state
\* its state for row k's session before and after row k
state_before(db, k, have) ==
    session_of(states_after(db, k - 1, have), master_key,
               dict_val(header_of(db[k]), "session"))
state_after(db, k, have) ==
    dict_val(states_after(db, k, have), dict_val(header_of(db[k]), "session"))
\* the verifier ran row k's AEAD decryption and it succeeded
decrypted(db, k, have) ==
    /\ dict_val(header_of(db[k]), "suite") = SUITE_AES_SIV => have
    /\ decrypt_check(state_before(db, k, have), header_of(db[k]), db[k].body, TRUE)
\* the verifier follows the writer on the store up to row k
follows_writer(k, have) ==
    LET row == segments[k]
        first == k = 1 \/ session_at(k - 1) # session_at(k)
        v0 == state_before(segments, k, have)
        v == state_after(segments, k, have)
    IN  /\ first => /\ v0.current_key = HKDF(master_key, 32, fromhex(session_at(k)), "session-key")
                    /\ v0.prev_chain_tag = zero_bytes(32)
        /\ v.current_key = enc_key(row)
        /\ v.prev_chain_tag = chain_tag_at(k)
        /\ k = Len(segments) /\ session_at(k) = sess.session_id
             => /\ v.current_key = _current_key
                /\ v.prev_chain_tag = _last_chain_tag
\* on db the verifier advances at row k only what a successful check covers
advances_on_success(db, k, have) ==
    LET v0 == state_before(db, k, have)
        v == state_after(db, k, have)
    IN  /\ v.prev_chain_tag # v0.prev_chain_tag => chain_check(v0, header_of(db[k]), db[k].body)
        /\ v.current_key # v0.current_key => decrypted(db, k, have)
\* C37: on a store written by failure-free sequential flushes, after the
\* verifier has processed the k-th segment its current_key and prev_chain_tag
\* for the segment's session are the writer's current_key and last_chain_tag
\* after writing that segment, for every k, both starting from the session
\* key and 32 zero bytes; and the verifier advances each only on a successful
\* check, on that store and on the store with one body altered.
C37_VerifierFollowsWriter ==
    nfail = 0 =>
        \A k \in 1..Len(segments), have \in BOOLEAN :
            /\ follows_writer(k, have)
            /\ advances_on_success(segments, k, have)
            /\ advances_on_success(alter_body(segments, k, 1), k, have)

\* ------------------------------- the event channel with the derived events
\* What the hooks put on the channel: a paste hotkey, a right click, a middle
\* click, a clipboard change, stamped t
HookEvents(t) ==
    {ev \in KeyEvents : ev.key = "v" /\ ev.mods = {"ctrl"} /\ ev.action = "down" /\ ev.t_mono = t}
    \cup {ev \in MouseEvents : ev.button \in {"right", "middle"} /\ ev.action = "down" /\ ev.t_mono = t}
    \cup {ev \in ClipboardEvents : ev.length = MaxLen /\ ev.t_mono = t}

\* the events _emit (paste_classifier.py) and the rules (anomaly_engine.py)
\* construct at time t, as they stand on the channel
queued_commands(out, t) ==
    [i \in 1..Len(out) |->
        [class |-> "CommandEvent", etype |-> etype_of("CommandEvent"),
         t_mono |-> mono_ts(t), command |-> out[i].command]]
queued_anomalies(out, t) ==
    [i \in 1..Len(out) |->
        [class |-> "AnomalyEvent", etype |-> etype_of("AnomalyEvent"),
         t_mono |-> mono_ts(t), severity |-> out[i].severity]]

notBus == <<segVars, q_got, putVars, runVars, dispVars, recVars, primary_hint,
            ctx_emits, cls_n, eng_t0, key_log, paste_log, cmd_clock, key_clock, eng_n>>

\* a hook stamps an event and puts it on the channel, which has room
hook_put ==
    /\ q_nput < MaxRaw
    /\ \E t \in clock..MaxT : \E ev \in HookEvents(t) :
        /\ clock' = t
        /\ event_queue' = Append(event_queue, ev)
    /\ q_nput' = q_nput + 1
    /\ UNCHANGED <<_last_right_click_mono, _last_clip_change_mono, _last_context_emit_mono,
                   cls_out, _recent_keys, _paste_times, _last_non_idle_t, eng_out,
                   _keys_window, _intervals, _last_key_down_t, _last_event_t, notBus>>

\* one turn of _consume_loop: the event at the head is taken off, the
\* classifier and then the engine process it, and what they emit is put on
\* the channel behind the events already there
consume_turn ==
    /\ event_queue # <<>>
    /\ \E t_now \in clock..MaxT :
        LET ev == Head(event_queue)
            c == PasteClassifier_process(ev, t_now)
            a == AnomalyEngine_process(ev)
        IN  /\ clock' = t_now
            /\ event_queue' = Tail(event_queue) \o queued_commands(c.out, t_now)
                                                \o queued_anomalies(a.out, t_now)
            /\ _last_right_click_mono' = c.rc
            /\ _last_clip_change_mono' = c.clip
            /\ _last_context_emit_mono' = c.emit
            /\ cls_out' = c.out
            /\ _recent_keys' = a.keys
            /\ _paste_times' = a.times
            /\ _last_non_idle_t' = a.last_t
            /\ _keys_window' = a.metrics.keys_window
            /\ _intervals' = a.metrics.intervals
            /\ _last_key_down_t' = a.metrics.last_key_down_t
            /\ _last_event_t' = a.metrics.last_event_t
            /\ eng_out' = a.out
    /\ UNCHANGED <<q_nput, notBus>>

NextBus ==
    \/ hook_put
    \/ consume_turn

\* the dispatcher thread runs as long as the runtime does
SpecBus == Init /\ [][NextBus]_vars /\ WF_vars(consume_turn)

no_cascade ==
    /\ \A ev \in CommandEvents, t_now \in clock..MaxT :
        /\ PasteClassifier_process(ev, t_now).out = <<>>
        /\ Len(AnomalyEngine_process(ev).out) <= 1
    /\ \A ev \in AnomalyEvents, t_now \in clock..MaxT :
        /\ PasteClassifier_process(ev, t_now).out = <<>>
        /\ AnomalyEngine_process(ev).out = <<>>
\* C38: derived events fed back through the channel create no endless
\* cascade: in every state a command event makes the classifier emit nothing
\* and the engine at most one anomaly, an anomaly event makes neither emit
\* anything; and once the hooks have put their finitely many events the
\* dispatcher empties the channel for good.
C38_NoEndlessCascade ==
    /\ []no_cascade
    /\ <>[](event_queue = <<>>)
\* an anomaly that a command made the engine emit is at the head of the
\* channel, behind it nothing
C38_Witness ==
    /\ q_nput = MaxRaw
    /\ Len(event_queue) = 1
    /\ Head(event_queue).class = "AnomalyEvent"
    /\ eng_out # <<>>
    /\ eng_out[1].rule_id = "multi_paste_streak"

\* ---- the records across the segments
\* the records of rows 1..n, read in ascending seq
RECURSIVE read_in_seq_order(_, _)
read_in_seq_order(db, n) ==
    IF n = 0 THEN <<>> ELSE read_in_seq_order(db, n - 1) \o records_of(db[n])
\* no record stands at two places of q
once_each(q) == \A i, j \in 1..Len(q) : q[i] = q[j] => i = j
\* C39: every record passed to add_event is in at most one persisted segment
\* and at most once in it, and the segments read in ascending seq give the
\* records in add_event order, also when the poller thread, the dispatcher
\* thread and stop() trigger flushes concurrently.
C39_RecordsOnceInAddOrder ==
    LET q == read_in_seq_order(segments, Len(segments))
    IN  /\ once_each(q)
        /\ increasing(q)

\* ---- the size of a segment
\* C40: every persisted segment holds at least one record and its meta count
\* is the number of records of its batch; no flush, by size, by timer or
\* forced by stop, takes an empty batch to write; and with the one dispatcher
\* thread calling add_event no segment holds more than max_events records.
C40_SegmentSizes ==
    /\ \A i \in 1..Len(segments) :
        LET n == Len(records_of(segments[i])) IN
        /\ n >= 1
        /\ segments[i].meta.count = n
        /\ n <= max_events
    /\ \A t \in Threads : pc[t] \in Writing => loc[t].batch # <<>>
\* a segment filled to max_events and one that a later flush wrote for a
\* single record
C40_Witness ==
    \E i, j \in 1..Len(segments) :
        /\ i < j
        /\ Len(records_of(segments[i])) = max_events
        /\ Len(records_of(segments[j])) = 1
====
